---- MODULE Spec2Model ----
(***************************************************************************)
(* Expense-report lifecycle of the EXPRPRT backend: ExpenseService         *)
(* (create_report, submit_report), ApprovalService (record_decision) and   *)
(* FinanceService (finalize_reports) running as concurrent request tasks   *)
(* against one PostgreSQL store.                                           *)
(*                                                                         *)
(* The store is modelled at READ COMMITTED: `reports`, `approvals`,        *)
(* `batches` and `journal_lines` hold the committed rows; the writes of an *)
(* open sqlx transaction live in tx[p] until tx.commit(), and a row        *)
(* updated by an open transaction is locked against other writers.         *)
(***************************************************************************)
EXTENDS Integers, Sequences, FiniteSets, TLC

\* ---------------------------------------------------------------- bounds
MaxReports == 2
MaxItems == 2

\* ------------------------------------------------------------ domain/models.rs
Role == {"Employee", "Manager", "Finance", "Admin"}

ReportStatus ==
    {"Draft", "Submitted", "ManagerApproved", "FinanceFinalized", "NeedsChanges", "Denied"}

ApprovalStatus == {"Approved", "Denied", "NeedsChanges"}

ServiceError == {"NotFound", "Forbidden", "Validation", "Conflict", "Internal"}

ExpenseCategory ==
    {"Airfare", "Lodging", "Meal", "GroundTransport", "Mileage", "Supplies", "Other"}

\* AuthenticatedUser values the auth collaborator can yield.
AuthenticatedUser ==
    { [employee_id |-> "emp", role |-> "Employee"],
      [employee_id |-> "emp2", role |-> "Employee"],
      [employee_id |-> "mgr", role |-> "Manager"],
      [employee_id |-> "fin", role |-> "Finance"],
      [employee_id |-> "adm", role |-> "Admin"] }

\* The users who draft reports in the model.
Creators == {u \in AuthenticatedUser : u.employee_id = "emp"}

ReportIds == 1..MaxReports
\* A Uuid that matches no row of expense_reports.
MissingId == 0
\* The request tasks: the service decides its races pairwise.
Procs == {1, 2}

VARIABLES
    reports,        \* committed expense_reports rows, by id
    approvals,      \* committed approvals rows
    batches,        \* committed netsuite_batches rows
    journal_lines,  \* committed journal_lines rows
    clock,          \* ticks of Utc::now(), the time of the last reading
    pc,             \* position of each request task
    call,           \* arguments and locals of each request task
    tx,             \* uncommitted writes of each task's open transaction
    result,         \* what the finished call returned
    items,          \* committed expense_items rows, in heap order
    policy_caps,    \* the policy_caps rows, in heap order
    receipts        \* committed receipts rows, in heap order

vars ==
    <<reports, approvals, batches, journal_lines, clock, pc, call, tx, result,
      items, policy_caps, receipts>>
db == <<reports, approvals, batches, journal_lines, items, policy_caps, receipts>>

NoReport ==
    [exists |-> FALSE, employee_id |-> "none", status |-> "none", version |-> 0,
     total_amount_cents |-> 0, total_reimbursable_cents |-> 0,
     reporting_period_start |-> 0, reporting_period_end |-> 0, currency |-> <<>>,
     updated_at |-> 0]
NoActor == [employee_id |-> "none", role |-> "none"]
\* A String is the sequence of its characters; a NaiveDate is a day number.
USD == <<"U", "S", "D">>

\* A CreateReportRequest.
CreateReportRequest(start, end, currency, its) ==
    [reporting_period_start |-> start, reporting_period_end |-> end,
     currency |-> currency, items |-> its]

NoRequest == CreateReportRequest(0, 0, <<>>, <<>>)

NoCall ==
    [op |-> "none", actor |-> NoActor, report_id |-> MissingId, decision |-> "none",
     report_ids |-> <<>>, idx |-> 0, id |-> 0, pre |-> "none", adapter |-> "none",
     payload |-> NoRequest, rows |-> <<>>, began |-> 0, now |-> 0,
     rollback |-> "none"]
NoWrites == [r \in {} |-> "none"]
NoTx ==
    [writes |-> NoWrites, approvals |-> {}, batch |-> {}, lines |-> {},
     report |-> {}, items |-> <<>>, receipts |-> <<>>, updated_at |-> NoWrites]
NoResult == [kind |-> "none", msg |-> "", value |-> <<>>]

Ok(msg) == [kind |-> "Ok", msg |-> msg, value |-> <<>>]
OkValue(v) == [kind |-> "Ok", msg |-> "", value |-> <<v>>]
Err(kind, msg) == [kind |-> kind, msg |-> msg, value |-> <<>>]

\* The committed row with this id, if any.
Row(rid) == IF rid \in ReportIds THEN reports[rid] ELSE NoReport

\* The report ids a request can name: those of the stored reports and a stray one.
Targets == {r \in ReportIds : reports[r].exists} \cup {MissingId}

\* --------------------------------------------------------------- row locks
\* The task whose open transaction has updated row rid holds its lock.
Holders(rid) == {q \in Procs : rid \in DOMAIN tx[q].writes}
LockedByOther(p, rid) == Holders(rid) \ {p} # {}

Init ==
    /\ reports = [r \in ReportIds |-> NoReport]
    /\ approvals = {}
    /\ batches = {}
    /\ journal_lines = {}
    /\ clock = 0
    /\ pc = [p \in Procs |-> "idle"]
    /\ call = [p \in Procs |-> NoCall]
    /\ tx = [p \in Procs |-> NoTx]
    /\ result = [p \in Procs |-> NoResult]
    /\ items = <<>>
    /\ policy_caps = <<>>
    /\ receipts = <<>>

\* ------------------------------------------------ ExpenseService::create_report
\* The i64 of the amounts and totals. The checker's integers have 32 bits, so
\* the type is modelled at 30 bits, two's complement: I64_MAX stands for
\* 2^63 - 1 and an amount of 2^28 for one of 2^62.
I64_BITS == 30
I64_MAX == 2^(I64_BITS - 1) - 1
I64_MIN == -(2^(I64_BITS - 1))

\* a + b on i64 in a build without overflow checks.
wrapping_add(a, b) ==
    LET sum == a + b
    IN IF sum > I64_MAX THEN sum - 2^I64_BITS
       ELSE IF sum < I64_MIN THEN sum + 2^I64_BITS
       ELSE sum

\* The sums of calculate_totals over the items from the i-th on.
RECURSIVE calculate_totals(_, _)
calculate_totals(its, i) ==
    IF i > Len(its) THEN <<0, 0>>
    ELSE LET rest == calculate_totals(its, i + 1)
         IN <<wrapping_add(its[i].amount_cents, rest[1]),
              wrapping_add(IF its[i].reimbursable THEN its[i].amount_cents ELSE 0,
                           rest[2])>>

\* Whether one of the += of the loop, run from the i-th item with the totals so
\* far, leaves the range of i64: a build with overflow checks panics there.
RECURSIVE add_overflows(_, _, _, _)
add_overflows(its, i, total_amount, total_reimbursable) ==
    IF i > Len(its) THEN FALSE
    ELSE LET amount == its[i].amount_cents
             reimbursable == IF its[i].reimbursable THEN amount ELSE 0
         IN \/ total_amount + amount \notin I64_MIN..I64_MAX
            \/ total_reimbursable + reimbursable \notin I64_MIN..I64_MAX
            \/ add_overflows(its, i + 1, total_amount + amount,
                             total_reimbursable + reimbursable)

\* INSERT INTO expense_reports ... status Draft, version 1, the totals, and now
\* as created_at and updated_at
ReportRow(actor, payload, now) ==
    [exists |-> TRUE, employee_id |-> actor.employee_id, status |-> "Draft", version |-> 1,
     total_amount_cents |-> calculate_totals(payload.items, 1)[1],
     total_reimbursable_cents |-> calculate_totals(payload.items, 1)[2],
     reporting_period_start |-> payload.reporting_period_start,
     reporting_period_end |-> payload.reporting_period_end,
     currency |-> payload.currency, updated_at |-> now]

\* INSERT INTO expense_items ... of the k-th item of the payload; the flag
\* is_policy_exception is bound to false.
ItemRow(rid, k, item) ==
    [id |-> <<rid, k>>, report_id |-> rid, category |-> item.category,
     expense_date |-> item.expense_date, amount_cents |-> item.amount_cents,
     reimbursable |-> item.reimbursable, is_policy_exception |-> FALSE]

\* INSERT INTO receipts ... of the j-th receipt of the report's k-th item
ReceiptRow(rid, k, j, receipt, actor) ==
    [id |-> <<rid, k, j>>, expense_item_id |-> <<rid, k>>, file_key |-> receipt.file_key,
     file_name |-> receipt.file_name, mime_type |-> receipt.mime_type,
     size_bytes |-> receipt.size_bytes, uploaded_by |-> actor.employee_id]

\* The rows the inner loop inserts for the k-th item.
ReceiptRows(rid, k, item, actor) ==
    [j \in 1..Len(item.receipts) |-> ReceiptRow(rid, k, j, item.receipts[j], actor)]

\* The receipts rows of the items from the k-th on.
RECURSIVE PayloadReceipts(_, _, _, _)
PayloadReceipts(rid, its, actor, k) ==
    IF k > Len(its) THEN <<>>
    ELSE ReceiptRows(rid, k, its[k], actor) \o PayloadReceipts(rid, its, actor, k + 1)

\* A CreateExpenseItem of a request payload; receipts is #[serde(default)].
CreateExpenseItem(category, date, amount, reimbursable) ==
    [category |-> category, expense_date |-> date, amount_cents |-> amount,
     reimbursable |-> reimbursable, receipts |-> <<>>]

\* The payloads of the reports drafted before the calls under study begin.
DraftPayloads == {CreateReportRequest(1, 2, USD, <<CreateExpenseItem("Meal", 1, 2, TRUE)>>)}

\* A new report gets a fresh id that no call in flight can name: creation
\* commutes with every step of a running call, and the model orders it first.
create_report(actor, payload) ==
    /\ \A p \in Procs : pc[p] = "idle"
    /\ \E rid \in ReportIds :
        /\ ~reports[rid].exists
        /\ \A r \in ReportIds : r < rid => reports[r].exists
        /\ reports' = [reports EXCEPT ![rid] = ReportRow(actor, payload, clock + 1)]
        /\ items' = items \o [i \in 1..Len(payload.items) |->
                                   ItemRow(rid, i, payload.items[i])]
        /\ receipts' = receipts \o PayloadReceipts(rid, payload.items, actor, 1)
    /\ clock' = clock + 1
    /\ UNCHANGED <<approvals, batches, journal_lines, pc, call, tx, result, policy_caps>>

\* The number of commits the store has seen: every committing statement of the
\* service adds a report, an approval or a batch, or bumps a version.
RECURSIVE SumVersions(_)
SumVersions(rs) ==
    IF rs = {} THEN 0
    ELSE LET r == CHOOSE x \in rs : TRUE
         IN reports[r].version + SumVersions(rs \ {r})

WriteCount ==
    SumVersions({r \in ReportIds : reports[r].exists})
        + Cardinality(approvals) + Cardinality(batches)

\* Request p arrives: one task per inbound request, numbered in arrival order.
Begin(p, c) ==
    /\ pc[p] = "idle"
    /\ \A q \in Procs : q < p => pc[q] # "idle"
    /\ call' = [call EXCEPT ![p] =
           [c EXCEPT !.id = p, !.pre = Row(c.report_id).status]]

Finish(p, res) ==
    /\ pc' = [pc EXCEPT ![p] = "done"]
    /\ result' = [result EXCEPT ![p] = res]
    /\ tx' = [tx EXCEPT ![p] = NoTx]

\* The response is sent and the task's slot takes the next request.
Return(p) ==
    /\ pc[p] = "done"
    /\ pc' = [pc EXCEPT ![p] = "idle"]
    /\ call' = [call EXCEPT ![p] = NoCall]
    /\ result' = [result EXCEPT ![p] = NoResult]
    /\ UNCHANGED <<reports, approvals, batches, journal_lines, clock, tx, items, policy_caps, receipts>>

\* The ids of the reports inserted by open create_report transactions.
Drafting == UNION {tx[q].report : q \in Procs}

\* Mutant: the report row is inserted on the pool, outside the transaction.
create_report_begin_pool(p, actor, payload) ==
    /\ \E rid \in ReportIds :
          /\ ~reports[rid].exists /\ rid \notin Drafting
          /\ \A r \in ReportIds : r < rid => reports[r].exists \/ r \in Drafting
          /\ Begin(p, [NoCall EXCEPT !.op = "create_report", !.actor = actor,
                                     !.report_id = rid, !.payload = payload, !.idx = 1,
                                     !.now = clock + 1])
          /\ tx' = [tx EXCEPT ![p].report = {rid}]
          /\ reports' = [reports EXCEPT ![rid] = ReportRow(actor, payload, clock + 1)]
    /\ clock' = clock + 1
    /\ pc' = [pc EXCEPT ![p] = "create_items"]
    /\ UNCHANGED <<approvals, batches, journal_lines, result, items, policy_caps, receipts>>

\* pool.begin(), Utc::now(), calculate_totals and the INSERT of the report row,
\* under a fresh Uuid. When a total overflows, the build decides: with overflow checks
\* the task panics and the empty transaction is dropped, without them the sum
\* wraps.
create_report_begin(p, actor, payload) ==
    \E overflow_checks \in BOOLEAN :
       IF overflow_checks /\ add_overflows(payload.items, 1, 0, 0)
       THEN /\ Begin(p, [NoCall EXCEPT !.op = "create_report", !.actor = actor,
                                       !.payload = payload])
            /\ Finish(p, Err("Panic", "attempt to add with overflow"))
            /\ UNCHANGED <<reports, approvals, batches, journal_lines, clock, items, policy_caps, receipts>>
       ELSE /\ \E rid \in ReportIds :
                  /\ ~reports[rid].exists /\ rid \notin Drafting
                  /\ \A r \in ReportIds : r < rid => reports[r].exists \/ r \in Drafting
                  /\ Begin(p, [NoCall EXCEPT !.op = "create_report", !.actor = actor,
                                             !.report_id = rid, !.payload = payload,
                                             !.idx = 1, !.now = clock + 1])
                  /\ tx' = [tx EXCEPT ![p].report = {rid}]
            /\ clock' = clock + 1
            /\ pc' = [pc EXCEPT ![p] = "create_items"]
            /\ UNCHANGED <<reports, approvals, batches, journal_lines, result, items, policy_caps, receipts>>

\* One iteration of the loop over the payload's items: the INSERT of an item
\* and of its receipts.
create_report_item(p) ==
    /\ pc[p] = "create_items"
    /\ call[p].idx <= Len(call[p].payload.items)
    /\ tx' = [tx EXCEPT ![p].items =
                 Append(@, ItemRow(call[p].report_id, call[p].idx,
                                   call[p].payload.items[call[p].idx])),
                        ![p].receipts =
                 @ \o ReceiptRows(call[p].report_id, call[p].idx,
                                  call[p].payload.items[call[p].idx], call[p].actor)]
    /\ call' = [call EXCEPT ![p].idx = @ + 1]
    /\ UNCHANGED <<reports, approvals, batches, journal_lines, clock, pc, result, items, policy_caps, receipts>>

\* tx.commit(): the report row, its items and their receipts become visible
\* together.
create_report_commit(p) ==
    /\ pc[p] = "create_items"
    /\ call[p].idx > Len(call[p].payload.items)
    /\ reports' = [reports EXCEPT ![call[p].report_id] =
                      ReportRow(call[p].actor, call[p].payload, call[p].now)]
    /\ items' = items \o tx[p].items
    /\ receipts' = receipts \o tx[p].receipts
    /\ Finish(p, Ok(""))
    /\ UNCHANGED <<approvals, batches, journal_lines, clock, call, policy_caps>>

\* ------------------------------------------------ api/rest/expenses.rs
\* str::trim and is_empty on a String: the white space at both ends is dropped.
WhiteSpace == {" "}

RECURSIVE trim_start(_)
trim_start(s) ==
    IF s # <<>> /\ Head(s) \in WhiteSpace THEN trim_start(Tail(s)) ELSE s

RECURSIVE trim_end(_)
trim_end(s) ==
    IF s # <<>> /\ s[Len(s)] \in WhiteSpace THEN trim_end(SubSeq(s, 1, Len(s) - 1)) ELSE s

trim(s) == trim_end(trim_start(s))

is_empty(s) == Len(s) = 0

\* The ReceiptRules of the deployment's configuration.
receipt_rules == [max_bytes |-> 2, max_files_per_item |-> 1]

ReceiptPayload(file_key, file_name, mime_type, size_bytes) ==
    [file_key |-> file_key, file_name |-> file_name, mime_type |-> mime_type,
     size_bytes |-> size_bytes]

\* The entries pushed for the receipt_index-th receipt of the index-th item; the
\* keys count from 0, as enumerate() does.
ReceiptErrors(receipt, index, receipt_index, rules) ==
    LET key(field) == <<"items", index, "receipts", receipt_index, field>>
    IN (IF is_empty(trim(receipt.file_key))
        THEN {<<key("file_key"), "file_key is required">>} ELSE {})
       \cup (IF is_empty(trim(receipt.file_name))
             THEN {<<key("file_name"), "file_name is required">>} ELSE {})
       \cup (IF is_empty(trim(receipt.mime_type))
             THEN {<<key("mime_type"), "mime_type is required">>} ELSE {})
       \cup (IF receipt.size_bytes <= 0
             THEN {<<key("size_bytes"), "must be greater than 0">>}
             ELSE IF receipt.size_bytes > rules.max_bytes
             THEN {<<key("size_bytes"), <<"exceeds maximum size of", rules.max_bytes, "bytes">>>>}
             ELSE {})

\* The entries pushed for the index-th item.
ItemErrors(payload, item, index, rules) ==
    (IF item.amount_cents <= 0
     THEN {<<(<<"items", index, "amount_cents">>), "must be greater than 0">>} ELSE {})
    \cup (IF \/ item.expense_date < payload.reporting_period_start
             \/ item.expense_date > payload.reporting_period_end
          THEN {<<(<<"items", index, "expense_date">>), "must be within the reporting period">>}
          ELSE {})
    \cup (IF Len(item.receipts) > rules.max_files_per_item
          THEN {<<(<<"items", index, "receipts">>),
                  <<"cannot attach more than", rules.max_files_per_item, "receipts">>>>}
          ELSE {})
    \cup UNION {ReceiptErrors(item.receipts[j], index, j - 1, rules) :
                   j \in 1..Len(item.receipts)}

\* Mutant: the amounts of the items are not validated.
validate_create_report_payload_amounts(payload, rules) ==
    LET top == (IF is_empty(trim(payload.currency))
                THEN {<<(<<"currency">>), "currency is required">>} ELSE {})
               \cup (IF payload.reporting_period_end < payload.reporting_period_start
                     THEN {<<(<<"reporting_period_end">>),
                             "must be on or after reporting_period_start">>}
                     ELSE {})
    IN IF payload.items = <<>>
       THEN top \cup {<<(<<"items">>), "at least one expense item is required">>}
       ELSE top \cup UNION {ItemErrors(payload, [payload.items[i] EXCEPT !.amount_cents = 1],
                                       i - 1, rules) : i \in 1..Len(payload.items)}

\* The BTreeMap of errors as the set of its (key, message) entries; no key gets
\* two messages.
validate_create_report_payload(payload, rules) ==
    LET top == (IF is_empty(trim(payload.currency))
                THEN {<<(<<"currency">>), "currency is required">>} ELSE {})
               \cup (IF payload.reporting_period_end < payload.reporting_period_start
                     THEN {<<(<<"reporting_period_end">>),
                             "must be on or after reporting_period_start">>}
                     ELSE {})
    IN IF payload.items = <<>>
       THEN top \cup {<<(<<"items">>), "at least one expense item is required">>}
       ELSE top \cup UNION {ItemErrors(payload, payload.items[i], i - 1, rules) :
                               i \in 1..Len(payload.items)}

\* CreateReportPayload::into_request
into_request(payload) ==
    CreateReportRequest(
        payload.reporting_period_start, payload.reporting_period_end, payload.currency,
        [i \in 1..Len(payload.items) |->
            [category |-> payload.items[i].category,
             expense_date |-> payload.items[i].expense_date,
             amount_cents |-> payload.items[i].amount_cents,
             reimbursable |-> payload.items[i].reimbursable,
             receipts |-> payload.items[i].receipts]])

\* validation_error_response: 422 with the errors.
validation_error_response(errors) == [kind |-> "Validation", msg |-> "", value |-> <<errors>>]

\* The handler of POST /reports: the payload is validated, then handed to the
\* service.
create_report_handler(p, user, payload) ==
    /\ pc[p] = "idle"
    /\ LET validation_errors == validate_create_report_payload(payload, receipt_rules)
       IN IF validation_errors # {}
          THEN /\ Begin(p, [NoCall EXCEPT !.op = "create_report", !.actor = user,
                                          !.payload = payload])
               /\ Finish(p, validation_error_response(validation_errors))
               /\ UNCHANGED <<reports, approvals, batches, journal_lines, clock, items, policy_caps, receipts>>
          ELSE create_report_begin(p, user, into_request(payload))

\* ------------------------------------------------ ExpenseService::submit_report
\* Mutant: the WHERE clause without the status test.
SubmitWhereAnyStatus(row, actor) ==
    /\ row.exists
    /\ row.employee_id = actor.employee_id

\* Mutant: the WHERE clause without the owner test.
SubmitWhereAnyOwner(row, actor) ==
    /\ row.exists
    /\ row.status = "Draft"

\* WHERE id=$3 AND employee_id=$4 AND status='draft'
SubmitWhere(row, actor) ==
    /\ row.exists
    /\ row.employee_id = actor.employee_id
    /\ row.status = "Draft"

\* Mutant: the UPDATE leaves the version alone.
SubmitSetStatus(row, now) == [row EXCEPT !.status = "Submitted", !.updated_at = now]

\* SET status=$1, version=version+1, updated_at=$2
SubmitSet(row, now) ==
    [row EXCEPT !.status = "Submitted", !.version = row.version + 1, !.updated_at = now]

\* Mutant: the existence check without the owner.
SubmitExistsAnyOwner(row, actor) == IF row.exists THEN 1 ELSE 0

\* SELECT COUNT(1) ... WHERE id = $1 AND employee_id = $2
SubmitExists(row, actor) ==
    IF row.exists /\ row.employee_id = actor.employee_id THEN 1 ELSE 0

submit_report_begin(p, actor, rid) ==
    /\ Begin(p, [NoCall EXCEPT !.op = "submit_report", !.actor = actor, !.report_id = rid])
    /\ pc' = [pc EXCEPT ![p] = "submit_update"]
    /\ UNCHANGED <<reports, approvals, batches, journal_lines, clock, tx, result, items, policy_caps, receipts>>

\* Mutant: the status is tested on the row as read when the call began, and the
\* UPDATE then runs without the status in its WHERE clause.
submit_report_update_stale(p) ==
    /\ pc[p] = "submit_update"
    /\ LET rid == call[p].report_id
           row == Row(rid)
       IN IF row.exists /\ row.employee_id = call[p].actor.employee_id
             /\ call[p].pre = "Draft"
          THEN /\ ~LockedByOther(p, rid)
               /\ reports' = [reports EXCEPT ![rid] = SubmitSet(row, clock + 1)]
               /\ clock' = clock + 1
               /\ Finish(p, Ok(""))
          ELSE /\ pc' = [pc EXCEPT ![p] = "submit_exists"]
               /\ UNCHANGED <<reports, clock, tx, result>>
    /\ UNCHANGED <<approvals, batches, journal_lines, call, items, policy_caps, receipts>>

submit_report_update(p) ==
    /\ pc[p] = "submit_update"
    /\ LET rid == call[p].report_id
           row == Row(rid)
       IN IF SubmitWhere(row, call[p].actor)
          THEN /\ ~LockedByOther(p, rid)
               /\ reports' = [reports EXCEPT ![rid] = SubmitSet(row, clock + 1)]
               /\ clock' = clock + 1
               /\ Finish(p, Ok(""))
          ELSE /\ pc' = [pc EXCEPT ![p] = "submit_exists"]
               /\ UNCHANGED <<reports, clock, tx, result>>
    /\ UNCHANGED <<approvals, batches, journal_lines, call, items, policy_caps, receipts>>

submit_report_exists(p) ==
    /\ pc[p] = "submit_exists"
    /\ Finish(p, IF SubmitExists(Row(call[p].report_id), call[p].actor) = 0
                 THEN Err("NotFound", "")
                 ELSE Err("Conflict", ""))
    /\ UNCHANGED <<reports, approvals, batches, journal_lines, clock, call, items, policy_caps, receipts>>

\* ---------------------------------------------- ApprovalService::record_decision
\* Mutant: every role but Employee passes, as for the reviewers of evaluate_report.
ensure_role_reviewer(user, allowed) == user.role # "Employee"

ensure_role(user, allowed) == \E r \in allowed : r = user.role

\* Mutant: a Finance approval promotes to ManagerApproved as a Manager's does.
DecisionTargetManagerOnly(role, status) ==
    IF role \in {"Manager", "Finance"} /\ status = "Approved" THEN "ManagerApproved"
    ELSE "none"

\* Mutant: a Denied or NeedsChanges decision moves the report to that status.
DecisionTargetEveryDecision(role, status) ==
    IF role = "Manager" /\ status = "Approved" THEN "ManagerApproved"
    ELSE IF role = "Finance" /\ status = "Approved" THEN "FinanceFinalized"
    ELSE status

\* Mutant: a NeedsChanges decision hands the report back to its owner as a draft.
DecisionTargetReopens(role, status) ==
    IF role = "Manager" /\ status = "Approved" THEN "ManagerApproved"
    ELSE IF role = "Finance" /\ status = "Approved" THEN "FinanceFinalized"
    ELSE IF status = "NeedsChanges" THEN "Draft"
    ELSE "none"

\* The status record_decision moves the report to, "none" when it moves nothing.
DecisionTarget(role, status) ==
    IF role = "Manager" /\ status = "Approved" THEN "ManagerApproved"
    ELSE IF role = "Finance" /\ status = "Approved" THEN "FinanceFinalized"
    ELSE "none"

\* INSERT INTO approvals ... VALUES (new id, report_id, actor.employee_id, actor.role, status)
ApprovalRow(c) ==
    [id |-> c.id, report_id |-> c.report_id, approver_id |-> c.actor.employee_id,
     role |-> c.actor.role, status |-> c.decision]

\* UPDATE expense_reports SET status=$1 WHERE id=$3: the rows it matches.
TransitionWhere(row, status) == row.exists

\* Mutant: the UPDATE of a transition bumps the version as submit_report's does.
CommitReportsVersioned(t) ==
    [r \in ReportIds |->
        IF r \in DOMAIN t.writes
        THEN [reports[r] EXCEPT !.status = t.writes[r], !.version = @ + 1]
        ELSE reports[r]]

\* The committed rows once transaction t commits.
CommitReports(t) ==
    [r \in ReportIds |->
        IF r \in DOMAIN t.writes
        THEN [reports[r] EXCEPT !.status = t.writes[r],
                                !.updated_at = IF r \in DOMAIN t.updated_at
                                               THEN t.updated_at[r] ELSE @]
        ELSE reports[r]]
\* Mutant: the new decision replaces the earlier decisions on the report.
CommitApprovalsLatest(t) ==
    {a \in approvals : a.report_id \notin {b.report_id : b \in t.approvals}}
        \cup t.approvals

CommitApprovals(t) == approvals \cup t.approvals
CommitBatches(t, b) == batches \cup b

\* Mutant: the journal lines were inserted on a connection that never commits.
CommitJournalLinesLost(t) == journal_lines

CommitJournalLines(t) == journal_lines \cup t.lines

\* Mutant: the INSERT ran on the pool, outside the transaction.
DropApprovalsKept(t) == approvals \cup t.approvals

\* The committed approvals once transaction t is dropped without a commit.
DropApprovals(t) == approvals

\* ensure_role, pool.begin() and the INSERT into the open transaction.
record_decision_begin(p, actor, rid, status) ==
    /\ IF ensure_role(actor, {"Manager", "Finance"})
       THEN /\ Begin(p, [NoCall EXCEPT !.op = "record_decision", !.actor = actor,
                                       !.report_id = rid, !.decision = status])
            /\ pc' = [pc EXCEPT ![p] =
                   IF DecisionTarget(actor.role, status) = "none"
                   THEN "decision_commit" ELSE "decision_transition"]
            /\ tx' = [tx EXCEPT ![p].approvals = {ApprovalRow(call'[p])}]
            /\ UNCHANGED result
       ELSE \* the report id and the payload are never read
            /\ Begin(p, [NoCall EXCEPT !.op = "record_decision", !.actor = actor])
            /\ Finish(p, Err("Forbidden", ""))
    /\ UNCHANGED <<reports, approvals, batches, journal_lines, clock, items, policy_caps, receipts>>

\* transition_report: zero rows affected drops the transaction.
record_decision_transition(p) ==
    /\ pc[p] = "decision_transition"
    /\ LET rid == call[p].report_id
           status == DecisionTarget(call[p].actor.role, call[p].decision)
       IN IF TransitionWhere(Row(rid), status)
          THEN /\ ~LockedByOther(p, rid)
               /\ tx' = [tx EXCEPT ![p].writes = (rid :> status),
                                   ![p].updated_at = (rid :> clock + 1)]
               /\ clock' = clock + 1
               /\ pc' = [pc EXCEPT ![p] = "decision_commit"]
               /\ UNCHANGED <<approvals, result>>
          ELSE /\ approvals' = DropApprovals(tx[p])
               /\ Finish(p, Err("NotFound", ""))
               /\ UNCHANGED clock
    /\ UNCHANGED <<reports, batches, journal_lines, call, items, policy_caps, receipts>>

record_decision_commit(p) ==
    /\ pc[p] = "decision_commit"
    /\ reports' = CommitReports(tx[p])
    /\ approvals' = CommitApprovals(tx[p])
    /\ Finish(p, Ok(""))
    /\ UNCHANGED <<batches, journal_lines, clock, call, items, policy_caps, receipts>>

\* ---------------------------------------------- FinanceService::finalize_reports
\* Mutant: an Admin may finalize as well.
FinalizeAllowedAdmin(actor) == actor.role \in {"Finance", "Admin"}

FinalizeAllowed(actor) == actor.role = "Finance"

\* report_ids of a FinalizeRequest: no id, one id, or two ids (equal or not).
ReportIdLists ==
    {<<>>} \cup {<<a>> : a \in Targets} \cup {<<a, b>> : a \in Targets, b \in Targets}

\* INSERT INTO netsuite_batches ... status 'pending'
BatchRow(c, now) ==
    [id |-> c.id, finalized_by |-> c.actor.employee_id, finalized_at |-> now,
     status |-> "pending", exported |-> FALSE]

\* Mutant: only a report a Manager approved is finalized.
FinalizeWhereApproved(row) == row.exists /\ row.status = "ManagerApproved"

\* UPDATE expense_reports SET status=$1 WHERE id=$2: the rows it matches.
FinalizeWhere(row) == row.exists

\* Mutant: the line number is the 0-based index of enumerate().
JournalLineZeroBased(c, i) ==
    [batch_id |-> c.id, report_id |-> c.report_ids[i], line_number |-> i - 1,
     gl_account |-> "EXPENSES", amount_cents |-> 0]

\* Mutant: a report id named several times gets the line of its first occurrence.
JournalLineOncePerReport(c, i) ==
    [batch_id |-> c.id, report_id |-> c.report_ids[i],
     line_number |-> CHOOSE j \in 1..i :
                        /\ c.report_ids[j] = c.report_ids[i]
                        /\ \A k \in 1..(j - 1) : c.report_ids[k] # c.report_ids[i],
     gl_account |-> "EXPENSES", amount_cents |-> 0]

\* INSERT INTO journal_lines ... line_number (idx + 1), 'EXPENSES', 0
JournalLine(c, i) ==
    [batch_id |-> c.id, report_id |-> c.report_ids[i], line_number |-> i,
     gl_account |-> "EXPENSES", amount_cents |-> 0]

\* The outcomes of netsuite::export_batch: Ok(succeeded), Ok(not succeeded), Err.
AdapterOutcomes == {"succeeded", "failed", "error"}

\* Mutant: the batch is marked exported whatever the adapter answered.
ExportStatusExported(succeeded) == "exported"

\* let export_status = if response.succeeded { "exported" } else { "failed" }
ExportStatus(succeeded) == IF succeeded THEN "exported" ELSE "failed"

\* Mutant: the adapter's error is swallowed and the transaction committed.
AfterExportAlwaysCommit(outcome) == "commit"

\* What finalize_reports does with the adapter's outcome: "commit" or "rollback".
AfterExport(outcome) == IF outcome = "error" THEN "rollback" ELSE "commit"

\* Role check, pool.begin() and the INSERT of the pending batch.
finalize_reports_begin(p, actor, ids) ==
    /\ IF FinalizeAllowed(actor)
       THEN /\ Begin(p, [NoCall EXCEPT !.op = "finalize_reports", !.actor = actor,
                                       !.report_ids = ids, !.idx = 1,
                                       !.began = WriteCount])
            /\ pc' = [pc EXCEPT ![p] = "finalize_loop"]
            /\ clock' = clock + 1
            /\ tx' = [tx EXCEPT ![p].batch = {BatchRow(call'[p], clock + 1)}]
            /\ UNCHANGED result
       ELSE \* the payload is never read
            /\ Begin(p, [NoCall EXCEPT !.op = "finalize_reports", !.actor = actor])
            /\ Finish(p, Err("Forbidden", ""))
            /\ UNCHANGED clock
    /\ UNCHANGED <<reports, approvals, batches, journal_lines, items, policy_caps, receipts>>

\* One iteration of the loop: the unconditional UPDATE, then the journal line.
finalize_reports_loop(p) ==
    /\ pc[p] = "finalize_loop"
    /\ call[p].idx <= Len(call[p].report_ids)
    /\ LET rid == call[p].report_ids[call[p].idx]
           line == JournalLine(call[p], call[p].idx)
       IN /\ FinalizeWhere(Row(rid)) => ~LockedByOther(p, rid)
          /\ tx' = [tx EXCEPT ![p].writes =
                        IF FinalizeWhere(Row(rid)) THEN (rid :> "FinanceFinalized") @@ @
                        ELSE @,
                               ![p].lines = @ \cup {line}]
    /\ call' = [call EXCEPT ![p].idx = @ + 1]
    /\ UNCHANGED <<reports, approvals, batches, journal_lines, clock, pc, result, items, policy_caps, receipts>>

\* The anyhow::Error of export_batch and the sqlx::Error of tx.rollback(), each
\* by the text its Display writes.
AdapterError == "netsuite export failed"
RollbackError == "connection closed"

\* err.to_string(): a String is the sequence of the fragments written to it.
to_string(err) == <<err>>

\* Mutant: the compound message names the rollback failure alone.
rollback_failure_only(rollback_err, err) ==
    <<"failed to rollback after NetSuite export error: ", rollback_err>>

\* format!("failed to rollback after NetSuite export error: {} (original: {})",
\*         rollback_err, err)
rollback_failure(rollback_err, err) ==
    <<"failed to rollback after NetSuite export error: ", rollback_err,
      " (original: ", err, ")">>

\* Mutant: after an adapter error the export is attempted again.
finalize_reports_export_retry(p, outcome, rollback_ok) ==
    /\ pc[p] = "finalize_loop"
    /\ call[p].idx > Len(call[p].report_ids)
    /\ call' = [call EXCEPT ![p].adapter = outcome]
    /\ IF AfterExport(outcome) = "commit"
       THEN LET status == ExportStatus(outcome = "succeeded")
                b == {[r EXCEPT !.status = status, !.exported = TRUE] : r \in tx[p].batch}
            IN /\ rollback_ok
               /\ reports' = CommitReports(tx[p])
               /\ batches' = CommitBatches(tx[p], b)
               /\ journal_lines' = CommitJournalLines(tx[p])
               /\ Finish(p, Ok(status))
       ELSE /\ call[p].adapter = "none"
            /\ UNCHANGED <<reports, batches, journal_lines, pc, tx, result>>
    /\ UNCHANGED <<approvals, clock, items, policy_caps, receipts>>

\* netsuite::export_batch returns; the batch is updated and committed, or rolled back.
finalize_reports_export(p, outcome, rollback_ok) ==
    /\ pc[p] = "finalize_loop"
    /\ call[p].idx > Len(call[p].report_ids)
    /\ call' = [call EXCEPT ![p].adapter = outcome,
                            ![p].rollback = IF AfterExport(outcome) = "commit" THEN "none"
                                            ELSE IF rollback_ok THEN "ok" ELSE "failed"]
    /\ IF AfterExport(outcome) = "commit"
       THEN LET status == ExportStatus(outcome = "succeeded")
                b == {[r EXCEPT !.status = status, !.exported = TRUE] : r \in tx[p].batch}
            IN /\ rollback_ok
               /\ reports' = CommitReports(tx[p])
               /\ batches' = CommitBatches(tx[p], b)
               /\ journal_lines' = CommitJournalLines(tx[p])
               /\ Finish(p, Ok(status))
       ELSE /\ UNCHANGED <<reports, batches, journal_lines>>
            /\ Finish(p, Err("Internal",
                             IF rollback_ok THEN to_string(AdapterError)
                             ELSE rollback_failure(RollbackError, AdapterError)))
    /\ UNCHANGED <<approvals, clock, items, policy_caps, receipts>>

\* The caller disconnects while the call is suspended with its transaction open,
\* at one of the statements or at the await of export_batch: the future of
\* finalize_reports is dropped, and with it the Transaction. Nothing is sent to
\* the database yet, so the rows the transaction has updated stay locked.
cancel(p) ==
    /\ pc[p] = "finalize_loop"
    /\ pc' = [pc EXCEPT ![p] = "dropped"]
    /\ UNCHANGED <<reports, approvals, batches, journal_lines, clock, call, tx, result, items, policy_caps, receipts>>

\* Mutant: the connection goes back to the pool with the status updates applied.
rollback_dropped_partial(p) ==
    /\ pc[p] = "dropped"
    /\ reports' = CommitReports(tx[p])
    /\ Finish(p, Err("Cancelled", ""))
    /\ UNCHANGED <<approvals, batches, journal_lines, clock, call, items, policy_caps, receipts>>

\* Drop of a Transaction still in progress queues ROLLBACK on its connection,
\* and the connection's return to the pool executes it; no response is sent.
rollback_dropped(p) ==
    /\ pc[p] = "dropped"
    /\ Finish(p, Err("Cancelled", ""))
    /\ UNCHANGED <<reports, approvals, batches, journal_lines, clock, call, items, policy_caps, receipts>>

\* ---------------------------------------------- FinanceService::recent_batches
LIMIT == 25

RECURSIVE SumAmounts(_)
SumAmounts(lines) ==
    IF lines = {} THEN 0
    ELSE LET l == CHOOSE x \in lines : TRUE
         IN l.amount_cents + SumAmounts(lines \ {l})

\* One row of the LEFT JOIN ... GROUP BY b.id.
BatchSummary(b) ==
    LET lines == {l \in journal_lines : l.batch_id = b.id}
    IN [id |-> b.id, finalized_at |-> b.finalized_at, status |-> b.status,
        report_count |-> Cardinality({l.report_id : l \in lines}),
        total_amount_cents |-> SumAmounts(lines)]

\* ORDER BY b.finalized_at DESC
RECURSIVE NewestFirst(_)
NewestFirst(bs) ==
    IF bs = {} THEN <<>>
    ELSE LET b == CHOOSE x \in bs : \A y \in bs : x.finalized_at >= y.finalized_at
         IN <<BatchSummary(b)>> \o NewestFirst(bs \ {b})

\* What recent_batches returns to a Finance actor on the committed rows.
RecentBatches ==
    LET all == NewestFirst(batches)
    IN SubSeq(all, 1, IF Len(all) < LIMIT THEN Len(all) ELSE LIMIT)

\* The SQL type of journal_lines.amount_cents: map_line reads the column with
\* row.get into the i64 field of JournalLine, which sqlx accepts for INT8 only.
amount_cents_type == "INT8"

\* PostgreSQL's result type of SUM: BIGINT for SMALLINT and INTEGER arguments,
\* NUMERIC for a BIGINT or NUMERIC argument. COALESCE(SUM(..), 0) keeps it.
sum_type(argument) ==
    IF argument \in {"INT2", "INT4"} THEN "INT8" ELSE "NUMERIC"

\* The SQL types of the two aggregate columns of the SELECT.
column_type(column) ==
    IF column = "report_count" THEN "INT8" ELSE sum_type(amount_cents_type)

\* sqlx's Type::compatible of i64: its own type_info, INT8, and no other.
compatible_i64(ty) == ty = "INT8"

\* row.get::<i64, _>(column), which unwraps try_get: the value, or a panic on
\* ColumnDecode when the column's type is not compatible with i64.
get_i64_panics(column) == ~compatible_i64(column_type(column))

\* The role check, then the one SELECT on the pool, each returned row decoded
\* by the closure of map.
recent_batches(p, actor) ==
    /\ Begin(p, [NoCall EXCEPT !.op = "recent_batches", !.actor = actor])
    /\ Finish(p, IF actor.role # "Finance" THEN Err("Forbidden", "")
                 ELSE IF /\ RecentBatches # <<>>
                         /\ \/ get_i64_panics("report_count")
                            \/ get_i64_panics("total_amount_cents")
                      THEN Err("Panic", "mismatched types")
                 ELSE OkValue(RecentBatches))
    /\ UNCHANGED <<reports, approvals, batches, journal_lines, clock, items, policy_caps, receipts>>

\* ------------------------------------------------------------ domain/policy.rs
\* A NaiveDate is a day number; Option<NaiveDate> is <<>> (None) or <<d>> (Some).
ok == [is_valid |-> TRUE, violations |-> <<>>, warnings |-> <<>>]

with_violation(message) ==
    [is_valid |-> FALSE, violations |-> <<message>>, warnings |-> <<>>]

\* Mutant: the end of the window is exclusive.
cap_active_exclusive(cap, date) ==
    LET after_start == date >= cap.active_from
        before_end == IF cap.active_to = <<>> THEN TRUE ELSE date < cap.active_to[1]
    IN after_start /\ before_end

cap_active(cap, date) ==
    LET after_start == date >= cap.active_from
        before_end == IF cap.active_to = <<>> THEN TRUE ELSE date <= cap.active_to[1]
    IN after_start /\ before_end

\* format!("Meal exceeds per-diem limit of ${:.2}", amount_cents as f64 / 100.0):
\* the text, the dollars and the two decimals.
MealMessage(amount_cents) ==
    <<"Meal exceeds per-diem limit of $", amount_cents \div 100, amount_cents % 100>>

check_meal(item, caps) ==
    LET exceeded(cap) ==
            /\ cap.category = "Meal"
            /\ cap_active(cap, item.expense_date)
            /\ item.amount_cents > cap.amount_cents
        hits == SelectSeq(caps, exceeded)
        violations == [i \in 1..Len(hits) |-> MealMessage(hits[i].amount_cents)]
    IN IF violations = <<>> THEN ok
       ELSE [is_valid |-> FALSE, violations |-> violations, warnings |-> <<>>]

\* Mutant: every active Mileage cap is tested, as for meals.
check_mileage_all(item, caps) ==
    LET found == {i \in 1..Len(caps) :
                     caps[i].category = "Mileage" /\ cap_active(caps[i], item.expense_date)}
    IN IF \A i \in found : item.amount_cents <= caps[i].amount_cents THEN ok
       ELSE with_violation(<<"Mileage exceeds configured reimbursement rate">>)

check_mileage(item, caps) ==
    LET found == {i \in 1..Len(caps) :
                     caps[i].category = "Mileage" /\ cap_active(caps[i], item.expense_date)}
    IN IF found = {} THEN ok
       ELSE LET cap == caps[CHOOSE i \in found : \A j \in found : i <= j]
            IN IF item.amount_cents <= cap.amount_cents THEN ok
               ELSE with_violation(<<"Mileage exceeds configured reimbursement rate">>)

\* Mutant: the remaining categories are held to the mileage rate.
evaluate_item_rated(item, caps) ==
    IF item.category = "Meal" THEN check_meal(item, caps)
    ELSE check_mileage(item, caps)

evaluate_item(item, caps) ==
    IF item.category = "Meal" THEN check_meal(item, caps)
    ELSE IF item.category = "Mileage" THEN check_mileage(item, caps)
    ELSE ok

\* PolicyEvaluation::merge, as the specification gives it (4.3 step 5), like the
\* warnings of an evaluation: the other evaluation's findings are appended, and
\* the result is valid only if both are.
merge(evaluation, other) ==
    [is_valid |-> evaluation.is_valid /\ other.is_valid,
     violations |-> evaluation.violations \o other.violations,
     warnings |-> evaluation.warnings \o other.warnings]

\* ------------------------------------------------ ExpenseService::evaluate_report
\* format!("Expense item {} marked as a policy exception", item.id)
ExceptionWarning(item) == <<"Expense item marked as a policy exception", item.id>>

\* Mutant: an item flagged as an exception makes the report invalid.
RECURSIVE AggregateBlocking(_, _, _, _)
AggregateBlocking(evaluation, its, caps, i) ==
    IF i > Len(its) THEN evaluation
    ELSE LET merged == merge(evaluation, evaluate_item(its[i], caps))
             next == IF its[i].is_policy_exception
                     THEN [merged EXCEPT !.is_valid = FALSE,
                                         !.warnings = Append(@, ExceptionWarning(its[i]))]
                     ELSE merged
         IN AggregateBlocking(next, its, caps, i + 1)

\* The loop of aggregate_policy_evaluation from its i-th item on.
RECURSIVE Aggregate(_, _, _, _)
Aggregate(evaluation, its, caps, i) ==
    IF i > Len(its) THEN evaluation
    ELSE LET merged == merge(evaluation, evaluate_item(its[i], caps))
             next == IF its[i].is_policy_exception
                     THEN [merged EXCEPT !.warnings = Append(@, ExceptionWarning(its[i]))]
                     ELSE merged
         IN Aggregate(next, its, caps, i + 1)

aggregate_policy_evaluation(its, caps) == Aggregate(ok, its, caps, 1)

\* Mutant: Admin is not among the reviewers.
is_reviewer_without_admin(role) == role \in {"Manager", "Finance"}

\* matches!(actor.role, Role::Manager | Role::Finance | Role::Admin)
is_reviewer(role) == role \in {"Manager", "Finance", "Admin"}

\* SELECT ... FROM expense_items WHERE report_id = $1
SelectItems(rid) == SelectSeq(items, LAMBDA row : row.report_id = rid)

\* SELECT ... FROM policy_caps WHERE category = ANY($1)
SelectCaps(categories) == SelectSeq(policy_caps, LAMBDA cap : cap.category \in categories)

\* SELECT employee_id ...; NotFound, Forbidden, or on to the items.
evaluate_report_begin(p, actor, rid) ==
    /\ Begin(p, [NoCall EXCEPT !.op = "evaluate_report", !.actor = actor,
                               !.report_id = rid, !.began = WriteCount])
    /\ IF ~Row(rid).exists THEN Finish(p, Err("NotFound", ""))
       ELSE IF actor.employee_id # Row(rid).employee_id /\ ~is_reviewer(actor.role)
       THEN Finish(p, Err("Forbidden", ""))
       ELSE /\ pc' = [pc EXCEPT ![p] = "evaluate_items"]
            /\ UNCHANGED <<tx, result>>
    /\ UNCHANGED <<reports, approvals, batches, journal_lines, clock, items, policy_caps, receipts>>

\* SELECT the items; none gives PolicyEvaluation::ok().
evaluate_report_items(p) ==
    /\ pc[p] = "evaluate_items"
    /\ LET rows == SelectItems(call[p].report_id)
       IN IF rows = <<>>
          THEN /\ Finish(p, OkValue(ok))
               /\ UNCHANGED call
          ELSE /\ call' = [call EXCEPT ![p].rows = rows]
               /\ pc' = [pc EXCEPT ![p] = "evaluate_caps"]
               /\ UNCHANGED <<tx, result>>
    /\ UNCHANGED <<reports, approvals, batches, journal_lines, clock, items, policy_caps, receipts>>

\* Mutant: the evaluation flags the items it finds in violation in the store.
evaluate_report_caps_marking(p) ==
    /\ pc[p] = "evaluate_caps"
    /\ LET rows == call[p].rows
           categories == {rows[i].category : i \in 1..Len(rows)}
           caps == SelectCaps(categories)
       IN /\ Finish(p, OkValue(aggregate_policy_evaluation(rows, caps)))
          /\ items' = [i \in 1..Len(items) |->
                          IF /\ items[i].report_id = call[p].report_id
                             /\ ~evaluate_item(items[i], caps).is_valid
                          THEN [items[i] EXCEPT !.is_policy_exception = TRUE]
                          ELSE items[i]]
    /\ UNCHANGED <<reports, approvals, batches, journal_lines, clock, call, policy_caps, receipts>>

\* SELECT the caps of the items' categories and aggregate.
evaluate_report_caps(p) ==
    /\ pc[p] = "evaluate_caps"
    /\ LET rows == call[p].rows
           categories == {rows[i].category : i \in 1..Len(rows)}
       IN Finish(p, OkValue(aggregate_policy_evaluation(rows, SelectCaps(categories))))
    /\ UNCHANGED <<reports, approvals, batches, journal_lines, clock, call, items, policy_caps, receipts>>

\* ---------------------------------------------- ManagerService::fetch_queue
\* The ids of the employees rows: the actors' tokens are issued from them.
employees == {u.employee_id : u \in AuthenticatedUser}

\* The order of two item ids; an item's Uuid is modelled as <<report, k>>.
ItemIdLess(a, b) == a[1] < b[1] \/ (a[1] = b[1] /\ a[2] < b[2])

\* Mutant: the queue keeps the reports a Manager has approved.
QueueWherePending(row) ==
    /\ row.exists
    /\ row.employee_id \in employees
    /\ row.status \in {"Submitted", "ManagerApproved"}

\* JOIN employees e ON e.id = r.employee_id WHERE r.status = 'submitted'
QueueWhere(row) ==
    /\ row.exists
    /\ row.employee_id \in employees
    /\ row.status = "Submitted"

\* The columns the first SELECT returns of report r, updated_at AS submitted_at.
QueueReport(r) ==
    [id |-> r, employee_id |-> reports[r].employee_id,
     reporting_period_start |-> reports[r].reporting_period_start,
     reporting_period_end |-> reports[r].reporting_period_end,
     total_amount_cents |-> reports[r].total_amount_cents,
     total_reimbursable_cents |-> reports[r].total_reimbursable_cents,
     currency |-> reports[r].currency, submitted_at |-> reports[r].updated_at]

\* ORDER BY submitted_at ASC, r.id ASC
ReportBefore(a, b) ==
    \/ a.submitted_at < b.submitted_at
    \/ a.submitted_at = b.submitted_at /\ a.id < b.id

RECURSIVE OrderReports(_)
OrderReports(rows) ==
    IF rows = {} THEN <<>>
    ELSE LET first == CHOOSE x \in rows : \A y \in rows \ {x} : ReportBefore(x, y)
         IN <<first>> \o OrderReports(rows \ {first})

\* The first SELECT on the committed rows.
SelectQueueReports ==
    OrderReports({QueueReport(r) : r \in {x \in ReportIds : QueueWhere(reports[x])}})

\* ORDER BY expense_date ASC, id ASC
ItemBefore(a, b) ==
    \/ a.expense_date < b.expense_date
    \/ a.expense_date = b.expense_date /\ ItemIdLess(a.id, b.id)

RECURSIVE OrderItems(_)
OrderItems(rows) ==
    IF rows = {} THEN <<>>
    ELSE LET first == CHOOSE x \in rows : \A y \in rows \ {x} : ItemBefore(x, y)
         IN <<first>> \o OrderItems(rows \ {first})

\* SELECT ... FROM expense_items WHERE report_id = ANY($1) ORDER BY ...
SelectQueueItems(report_ids) ==
    OrderItems({items[i] : i \in {k \in 1..Len(items) : items[k].report_id \in report_ids}})

ManagerPolicyFlag(item) ==
    [item_id |-> item.id, category |-> item.category, expense_date |-> item.expense_date]

\* The entry of one report: its items as the second SELECT ordered them, and a
\* flag for each of them that has is_policy_exception set.
ManagerQueueEntry(report, rows) ==
    LET line_items == SelectSeq(rows, LAMBDA item : item.report_id = report.id)
        flagged == SelectSeq(line_items, LAMBDA item : item.is_policy_exception)
    IN [report |-> report, line_items |-> line_items,
        policy_flags |-> [i \in 1..Len(flagged) |-> ManagerPolicyFlag(flagged[i])]]

\* The role check and the SELECT of the submitted reports; none ends the call.
fetch_queue_reports(p, actor) ==
    /\ IF actor.role # "Manager"
       THEN /\ Begin(p, [NoCall EXCEPT !.op = "fetch_queue", !.actor = actor])
            /\ Finish(p, Err("Forbidden", ""))
       ELSE IF SelectQueueReports = <<>>
       THEN /\ Begin(p, [NoCall EXCEPT !.op = "fetch_queue", !.actor = actor])
            /\ Finish(p, OkValue(<<>>))
       ELSE /\ Begin(p, [NoCall EXCEPT !.op = "fetch_queue", !.actor = actor,
                                       !.rows = SelectQueueReports])
            /\ pc' = [pc EXCEPT ![p] = "queue_items"]
            /\ UNCHANGED <<tx, result>>
    /\ UNCHANGED <<reports, approvals, batches, journal_lines, clock, items, policy_caps, receipts>>

\* The SELECT of the items of the reports read, and the entries built from both.
fetch_queue_items(p) ==
    /\ pc[p] = "queue_items"
    /\ LET rows == call[p].rows
           line_items == SelectQueueItems({rows[i].id : i \in 1..Len(rows)})
       IN Finish(p, OkValue([i \in 1..Len(rows) |->
                                 ManagerQueueEntry(rows[i], line_items)]))
    /\ UNCHANGED <<reports, approvals, batches, journal_lines, clock, call, items, policy_caps, receipts>>

\* ------------------------------------------------------------ services/errors.rs
status_code(err) ==
    CASE err.kind = "NotFound" -> 404
      [] err.kind = "Forbidden" -> 403
      [] err.kind = "Validation" -> 422
      [] err.kind = "Conflict" -> 409
      [] err.kind = "Internal" -> 500

\* The Display that thiserror derives from the #[error] attributes.
Display(err) ==
    CASE err.kind = "NotFound" -> <<"not found">>
      [] err.kind = "Forbidden" -> <<"forbidden">>
      [] err.kind = "Validation" -> <<"validation error: ">> \o err.msg
      [] err.kind = "Conflict" -> <<"conflict">>
      [] err.kind = "Internal" -> <<"internal error: ">> \o err.msg

\* ------------------------------------------------------------ api/rest
\* to_response of api/rest/auth.rs, the one that logs an Internal error and
\* answers with a fixed text.
auth_to_response(err) ==
    [status |-> status_code(err),
     body |-> [error |-> IF err.kind = "Internal" THEN <<"internal_server_error">>
                         ELSE Display(err)]]

\* to_response of api/rest/expenses.rs.
expenses_to_response(err) ==
    IF err.kind = "Validation"
    THEN [status |-> 422,
          body |-> [error |-> <<"validation_failed">>, message |-> err.msg]]
    ELSE [status |-> status_code(err), body |-> [error |-> Display(err)]]

\* to_response of api/rest/approvals.rs, finance.rs and manager.rs, the same
\* function three times.
to_response(err) ==
    [status |-> status_code(err), body |-> [error |-> Display(err)]]

\* The Err a handler returns for the error its service call returned:
\* service.call(..).await.map_err(to_response)?. The 422 of create_report's own
\* validation carries the map of errors.
ErrorResponse(op, err) ==
    IF op = "create_report" /\ err.kind = "Validation" /\ err.value # <<>>
    THEN [status |-> 422, body |-> [errors |-> err.value[1]]]
    ELSE IF op \in {"create_report", "submit_report", "evaluate_report"}
         THEN expenses_to_response(err)
    ELSE to_response(err)

\* ------------------------------------------------------------ the store
\* The row the task's next statement must lock, MissingId when it needs none.
Wants(p) ==
    IF pc[p] = "decision_transition" THEN call[p].report_id
    ELSE IF pc[p] = "finalize_loop" /\ call[p].idx <= Len(call[p].report_ids)
         THEN call[p].report_ids[call[p].idx]
    ELSE MissingId

Blockers(p) == IF Row(Wants(p)).exists THEN Holders(Wants(p)) \ {p} ELSE {}

RECURSIVE WaitsFor(_, _)
WaitsFor(S, n) ==
    IF n = 0 THEN S ELSE WaitsFor(S \cup UNION {Blockers(q) : q \in S}, n - 1)

\* PostgreSQL's deadlock detector fails the statement of a task on a cycle of lock
\* waits; the service maps the sqlx error to Internal and drops the transaction.
deadlock_detected(p) ==
    /\ pc[p] \in {"decision_transition", "finalize_loop"}
    /\ p \in WaitsFor(Blockers(p), Cardinality(Procs))
    /\ Finish(p, Err("Internal", <<"deadlock detected">>))
    /\ UNCHANGED <<reports, approvals, batches, journal_lines, clock, call, items, policy_caps, receipts>>

Next ==
    \/ \E actor \in Creators, payload \in DraftPayloads : create_report(actor, payload)
    \/ \E p \in Procs, actor \in AuthenticatedUser, rid \in Targets :
          submit_report_begin(p, actor, rid)
    \/ \E p \in Procs : submit_report_update(p)
    \/ \E p \in Procs : submit_report_exists(p)
    \/ \E p \in Procs, actor \in AuthenticatedUser, rid \in Targets,
            status \in ApprovalStatus :
          record_decision_begin(p, actor, rid, status)
    \/ \E p \in Procs : record_decision_transition(p)
    \/ \E p \in Procs : record_decision_commit(p)
    \/ \E p \in Procs, actor \in AuthenticatedUser, ids \in ReportIdLists :
          finalize_reports_begin(p, actor, ids)
    \/ \E p \in Procs : finalize_reports_loop(p)
    \/ \E p \in Procs, outcome \in AdapterOutcomes, rollback_ok \in BOOLEAN :
          finalize_reports_export(p, outcome, rollback_ok)
    \/ \E p \in Procs : deadlock_detected(p)

Spec == Init /\ [][Next]_vars

\* ------------------------------------------------ the life of a report
\* All calls that write a report, the creating request under observation too.
LifecycleNext ==
    \/ Next
    \/ \E p \in Procs, actor \in AuthenticatedUser, payload \in DraftPayloads :
          create_report_begin(p, actor, payload)
    \/ \E p \in Procs : create_report_item(p)
    \/ \E p \in Procs : create_report_commit(p)

LifecycleSpec == Init /\ [][LifecycleNext]_vars

\* ------------------------------------------------ evaluation beside drafting
\* Requests that draft reports and requests that evaluate them, on a store with
\* one Meal cap; a task's slot is taken again by a later request.
PolicyCap(category, amount, from, to) ==
    [category |-> category, amount_cents |-> amount, active_from |-> from, active_to |-> to]

EvalCaps == <<PolicyCap("Meal", 1, 1, <<>>)>>

EvalPayloads ==
    {CreateReportRequest(1, 2, USD, <<>>),
     CreateReportRequest(1, 2, USD, <<CreateExpenseItem("Meal", 1, 2, TRUE)>>)}

EvalInit ==
    /\ reports = [r \in ReportIds |-> NoReport]
    /\ approvals = {}
    /\ batches = {}
    /\ journal_lines = {}
    /\ clock = 0
    /\ pc = [p \in Procs |-> "idle"]
    /\ call = [p \in Procs |-> NoCall]
    /\ tx = [p \in Procs |-> NoTx]
    /\ result = [p \in Procs |-> NoResult]
    /\ items = <<>>
    /\ policy_caps = EvalCaps
    /\ receipts = <<>>

EvalNext ==
    \/ \E p \in Procs, actor \in Creators, payload \in EvalPayloads :
          create_report_begin(p, actor, payload)
    \/ \E p \in Procs : create_report_item(p)
    \/ \E p \in Procs : create_report_commit(p)
    \/ \E p \in Procs, actor \in AuthenticatedUser, rid \in ReportIds \cup {MissingId} :
          evaluate_report_begin(p, actor, rid)
    \/ \E p \in Procs : evaluate_report_items(p)
    \/ \E p \in Procs : evaluate_report_caps(p)
    \/ \E p \in Procs : Return(p)

EvalSpec == EvalInit /\ [][EvalNext]_vars

\* ------------------------------------------------ writers beside readers
\* The three transactional calls (create_report, record_decision,
\* finalize_reports) beside the calls that only read (evaluate_report,
\* recent_batches).
VisibleNext ==
    \/ \E actor \in Creators, payload \in DraftPayloads : create_report(actor, payload)
    \/ \E p \in Procs, actor \in Creators, payload \in EvalPayloads :
          create_report_begin(p, actor, payload)
    \/ \E p \in Procs : create_report_item(p)
    \/ \E p \in Procs : create_report_commit(p)
    \/ \E p \in Procs, actor \in AuthenticatedUser, rid \in Targets,
            status \in ApprovalStatus :
          record_decision_begin(p, actor, rid, status)
    \/ \E p \in Procs : record_decision_transition(p)
    \/ \E p \in Procs : record_decision_commit(p)
    \/ \E p \in Procs, actor \in AuthenticatedUser, ids \in ReportIdLists :
          finalize_reports_begin(p, actor, ids)
    \/ \E p \in Procs : finalize_reports_loop(p)
    \/ \E p \in Procs, outcome \in AdapterOutcomes, rollback_ok \in BOOLEAN :
          finalize_reports_export(p, outcome, rollback_ok)
    \/ \E p \in Procs, actor \in AuthenticatedUser : recent_batches(p, actor)
    \/ \E p \in Procs, actor \in Creators, rid \in ReportIds :
          evaluate_report_begin(p, actor, rid)
    \/ \E p \in Procs : evaluate_report_items(p)
    \/ \E p \in Procs : evaluate_report_caps(p)
    \/ \E p \in Procs : deadlock_detected(p)

VisibleSpec == Init /\ [][VisibleNext]_vars

\* ------------------------------------------------ finalization with disconnects
\* Finance calls whose caller may disconnect. The pool's task that takes back a
\* dropped connection is scheduled by the runtime, so the queued ROLLBACK of a
\* dropped transaction is eventually executed.
CancelNext ==
    \/ \E actor \in Creators, payload \in DraftPayloads : create_report(actor, payload)
    \/ \E p \in Procs, actor \in AuthenticatedUser, ids \in ReportIdLists :
          finalize_reports_begin(p, actor, ids)
    \/ \E p \in Procs : finalize_reports_loop(p)
    \/ \E p \in Procs, outcome \in AdapterOutcomes, rollback_ok \in BOOLEAN :
          finalize_reports_export(p, outcome, rollback_ok)
    \/ \E p \in Procs : cancel(p)
    \/ \E p \in Procs : rollback_dropped(p)
    \/ \E p \in Procs : deadlock_detected(p)

CancelSpec ==
    Init /\ [][CancelNext]_vars /\ \A p \in Procs : WF_vars(rollback_dropped(p))

\* ------------------------------------------------ the aggregate evaluation
\* The owner evaluates one report, over the item tables and the cap tables the
\* store can hold for it.
StoredItems ==
    {[category |-> c, expense_date |-> d, amount_cents |-> 2, reimbursable |-> TRUE,
      is_policy_exception |-> e] :
        c \in {"Meal", "Mileage", "Lodging"}, d \in {1, 2}, e \in BOOLEAN}

ItemTables ==
    UNION {[1..n -> StoredItems] : n \in 0..MaxItems}

StoredCaps ==
    {PolicyCap(c, a, w[1], w[2]) :
        c \in {"Meal", "Mileage"}, a \in {1, 2}, w \in {<<1, <<1>>>>, <<2, <<>>>>}}

CapTables == {<<>>} \cup {<<a>> : a \in StoredCaps} \cup {<<a, b>> : a, b \in StoredCaps}

AggregateInit ==
    /\ approvals = {}
    /\ batches = {}
    /\ journal_lines = {}
    /\ clock = 1
    /\ pc = [p \in Procs |-> "idle"]
    /\ call = [p \in Procs |-> NoCall]
    /\ tx = [p \in Procs |-> NoTx]
    /\ result = [p \in Procs |-> NoResult]
    /\ \E t \in ItemTables :
          /\ items = [k \in 1..Len(t) |-> [id |-> <<1, k>>, report_id |-> 1] @@ t[k]]
          /\ reports = [r \in ReportIds |->
                           IF r = 1 THEN ReportRow(CHOOSE u \in Creators : TRUE,
                                                   CreateReportRequest(1, 2, USD, t), 1)
                           ELSE NoReport]
    /\ policy_caps \in CapTables
    /\ receipts = <<>>

AggregateNext ==
    \/ \E actor \in Creators : evaluate_report_begin(1, actor, 1)
    \/ evaluate_report_items(1)
    \/ evaluate_report_caps(1)

AggregateSpec == AggregateInit /\ [][AggregateNext]_vars

\* ------------------------------------------------ the handler of POST /reports
\* One request with a payload that is well formed or breaks the rules in one or
\* several places.
HandlerReceipts ==
    {ReceiptPayload(k, <<"f">>, <<"m">>, n) : k \in {<<"k">>}, n \in {0, 1, 2, 3}}
        \cup {ReceiptPayload(<<" ">>, <<"f">>, <<"m">>, 1)}

HandlerReceiptLists ==
    {<<>>} \cup {<<r>> : r \in HandlerReceipts}
        \cup {<<ReceiptPayload(<<"k">>, <<"f">>, <<"m">>, 1),
                ReceiptPayload(<<"k">>, <<"f">>, <<"m">>, 1)>>}

HandlerItems ==
    {[CreateExpenseItem("Meal", d, a, r) EXCEPT !.receipts = rs] :
        d \in {1, 3}, a \in {0, 2, 2^(I64_BITS - 2)}, r \in BOOLEAN,
        rs \in HandlerReceiptLists}

HandlerItemLists ==
    {<<>>} \cup {<<a>> : a \in HandlerItems} \cup {<<a, b>> : a, b \in HandlerItems}

HandlerPayloads ==
    {CreateReportRequest(w[1], w[2], c, its) :
        w \in {<<1, 2>>, <<2, 1>>}, c \in {USD, <<" ">>}, its \in HandlerItemLists}

HandlerNext ==
    \/ /\ pc[1] = "idle"
       /\ \E user \in AuthenticatedUser, payload \in HandlerPayloads :
             create_report_handler(1, user, payload)
    \/ create_report_item(1)
    \/ create_report_commit(1)

HandlerSpec == Init /\ [][HandlerNext]_vars

\* ------------------------------------------------ the policy engine on one item
\* The owner evaluates a report of one item: every category, amounts below, at
\* and above the caps, dates before, on and after the bounds of the windows.
PolicyItems ==
    {[category |-> c, expense_date |-> d, amount_cents |-> a, reimbursable |-> TRUE,
      is_policy_exception |-> FALSE] :
        c \in {"Meal", "Mileage", "Lodging", "Other"}, d \in 1..3, a \in 1..3}

PolicyCaps ==
    {PolicyCap(c, a, from, to) :
        c \in {"Meal", "Mileage", "Lodging"}, a \in {1, 2}, from \in {1, 2},
        to \in {<<>>, <<2>>}}

PolicyCapTables == {<<>>} \cup {<<a>> : a \in PolicyCaps} \cup {<<a, b>> : a, b \in PolicyCaps}

PolicyInit ==
    /\ approvals = {}
    /\ batches = {}
    /\ journal_lines = {}
    /\ clock = 1
    /\ pc = [p \in Procs |-> "idle"]
    /\ call = [p \in Procs |-> NoCall]
    /\ tx = [p \in Procs |-> NoTx]
    /\ result = [p \in Procs |-> NoResult]
    /\ \E item \in PolicyItems :
          /\ items = <<[id |-> <<1, 1>>, report_id |-> 1] @@ item>>
          /\ reports = [r \in ReportIds |->
                           IF r = 1 THEN ReportRow(CHOOSE u \in Creators : TRUE,
                                                   CreateReportRequest(1, 3, USD, <<item>>), 1)
                           ELSE NoReport]
    /\ policy_caps \in PolicyCapTables
    /\ receipts = <<>>

PolicySpec == PolicyInit /\ [][AggregateNext]_vars

\* ------------------------------------------------ the manager's queue
\* Two reports of one employee are in the store, the first with two items and
\* the second with one; a reviewer's tool has flagged two of the items as policy
\* exceptions. The calls that move a report run beside the Manager's reads.
QueuePayloads ==
    <<CreateReportRequest(1, 2, USD, <<CreateExpenseItem("Meal", 2, 2, TRUE),
                                       CreateExpenseItem("Lodging", 1, 1, TRUE)>>),
      CreateReportRequest(1, 2, USD, <<CreateExpenseItem("Meal", 1, 2, FALSE)>>)>>

\* The items flagged is_policy_exception, by id.
QueueFlagged == {<<1, 1>>, <<2, 1>>}

\* Status and updated_at of the two reports: both submitted within one tick of
\* the clock, the first submitted after the second, one of them or both still
\* drafts.
QueueStores ==
    { <<"Submitted", 3, "Submitted", 3>>, <<"Submitted", 4, "Submitted", 3>>,
      <<"Draft", 1, "Submitted", 3>>, <<"Draft", 1, "Draft", 2>> }

QueueInit ==
    /\ approvals = {}
    /\ batches = {}
    /\ journal_lines = {}
    /\ clock = 4
    /\ pc = [p \in Procs |-> "idle"]
    /\ call = [p \in Procs |-> NoCall]
    /\ tx = [p \in Procs |-> NoTx]
    /\ result = [p \in Procs |-> NoResult]
    /\ \E store \in QueueStores :
          reports = [r \in ReportIds |->
                        IF r \in 1..2
                        THEN LET created == ReportRow(CHOOSE u \in Creators : TRUE,
                                                      QueuePayloads[r], r)
                                 status == store[2 * r - 1]
                                 now == store[2 * r]
                             IN IF status = "Draft" THEN created
                                ELSE SubmitSet(created, now)
                        ELSE NoReport]
    /\ items = [k \in 1..3 |->
                   LET rid == IF k = 3 THEN 2 ELSE 1
                       n == IF k = 3 THEN 1 ELSE k
                       row == ItemRow(rid, n, QueuePayloads[rid].items[n])
                   IN [row EXCEPT !.is_policy_exception = row.id \in QueueFlagged]]
    /\ policy_caps = <<>>
    /\ receipts = <<>>

QueueNext ==
    \/ \E p \in Procs, actor \in AuthenticatedUser, rid \in Targets :
          submit_report_begin(p, actor, rid)
    \/ \E p \in Procs : submit_report_update(p)
    \/ \E p \in Procs : submit_report_exists(p)
    \/ \E p \in Procs, actor \in AuthenticatedUser, rid \in Targets,
            status \in ApprovalStatus :
          record_decision_begin(p, actor, rid, status)
    \/ \E p \in Procs : record_decision_transition(p)
    \/ \E p \in Procs : record_decision_commit(p)
    \/ \E p \in Procs, actor \in AuthenticatedUser, ids \in ReportIdLists :
          finalize_reports_begin(p, actor, ids)
    \/ \E p \in Procs : finalize_reports_loop(p)
    \/ \E p \in Procs, outcome \in AdapterOutcomes, rollback_ok \in BOOLEAN :
          finalize_reports_export(p, outcome, rollback_ok)
    \/ \E p \in Procs, actor \in AuthenticatedUser : fetch_queue_reports(p, actor)
    \/ \E p \in Procs : fetch_queue_items(p)
    \/ \E p \in Procs : deadlock_detected(p)

QueueSpec == QueueInit /\ [][QueueNext]_vars

\* ================================================================ claims

\* C1: submit_report succeeds only if, at the moment of its UPDATE, the report
\* exists, is owned by the actor and is in Draft; it then becomes Submitted. In
\* every other case the call fails and leaves every report unchanged.
SubmitOnlyOwnDraft ==
    [][\A p \in Procs :
          (call'[p].op = "submit_report" /\ pc'[p] # pc[p]) =>
             LET rid == call'[p].report_id
                 row == Row(rid)
             IN IF /\ pc[p] = "submit_update"
                   /\ row.exists
                   /\ row.employee_id = call[p].actor.employee_id
                   /\ row.status = "Draft"
                THEN /\ result'[p].kind = "Ok"
                     /\ reports' = [reports EXCEPT ![rid] =
                            [row EXCEPT !.status = "Submitted", !.version = row.version + 1,
                                        !.updated_at = reports'[rid].updated_at]]
                     /\ reports'[rid].updated_at > row.updated_at
                ELSE /\ reports' = reports
                     /\ result'[p].kind # "Ok"
                     /\ pc'[p] = "done" => result'[p].kind \in {"NotFound", "Conflict"}
      ]_vars

SubmitOnlyOwnDraftWitness ==
    \E p \in Procs :
        /\ pc[p] = "done" /\ call[p].op = "submit_report" /\ result[p].kind = "Ok"
        /\ Row(call[p].report_id).status = "Submitted"
        /\ \E q \in Procs :
              /\ pc[q] = "done" /\ call[q].op = "submit_report"
              /\ call[q].actor.employee_id = "emp2" /\ result[q].kind = "NotFound"

\* C2: two submit_report calls by the owner that both began while the report was
\* in Draft, with no other call naming that report, end with exactly one success
\* and one Conflict, and the report is Submitted, transitioned once (version 2).
DoubleSubmitOneWinner ==
    \A p, q \in Procs :
        ( /\ p # q
          /\ pc[p] = "done" /\ pc[q] = "done"
          /\ call[p].op = "submit_report" /\ call[q].op = "submit_report"
          /\ call[p].report_id = call[q].report_id
          /\ Row(call[p].report_id).exists
          /\ call[p].actor.employee_id = Row(call[p].report_id).employee_id
          /\ call[q].actor.employee_id = Row(call[p].report_id).employee_id
          /\ call[p].pre = "Draft" /\ call[q].pre = "Draft"
          /\ \A o \in Procs \ {p, q} :
                /\ call[o].report_id # call[p].report_id
                /\ \A i \in 1..Len(call[o].report_ids) :
                      call[o].report_ids[i] # call[p].report_id )
        => /\ {result[p].kind, result[q].kind} = {"Ok", "Conflict"}
           /\ Row(call[p].report_id).status = "Submitted"
           /\ Row(call[p].report_id).version = 2

DoubleSubmitWitness ==
    \E p, q \in Procs :
        /\ p # q
        /\ pc[p] = "done" /\ pc[q] = "done"
        /\ call[p].op = "submit_report" /\ call[q].op = "submit_report"
        /\ call[p].report_id = call[q].report_id
        /\ call[p].pre = "Draft" /\ call[q].pre = "Draft"
        /\ result[p].kind = "Ok" /\ result[q].kind = "Conflict"

\* C3: a status transition of record_decision commits only when the report still
\* has the transition's expected prior status (Submitted before ManagerApproved,
\* ManagerApproved before FinanceFinalized).
TransitionNeedsPriorStatus ==
    [][\A p \in Procs :
          ( /\ pc[p] = "decision_commit" /\ pc'[p] = "done"
            /\ call[p].report_id \in DOMAIN tx[p].writes ) =>
             LET rid == call[p].report_id
             IN reports[rid].status =
                   (IF tx[p].writes[rid] = "ManagerApproved"
                    THEN "Submitted" ELSE "ManagerApproved")
      ]_vars

\* C4: when the adapter call fails, the finalize_reports call has committed
\* nothing: no step of it changes a committed row, no batch and no journal line
\* of the call exist afterwards, and recent_batches does not list its batch.
AdapterErrorRollsBack ==
    [][\A p \in Procs :
          ( /\ call'[p].op = "finalize_reports"
            /\ <<pc[p], call[p]>> # <<pc'[p], call'[p]>>
            /\ (pc'[p] = "done" => call'[p].adapter = "error") ) =>
             /\ db' = db
             /\ pc'[p] = "done" /\ call'[p].actor.role = "Finance" =>
                   /\ result'[p].kind = "Internal"
                   /\ tx'[p] = NoTx
                   /\ \A b \in batches' : b.id # call'[p].id
                   /\ \A l \in journal_lines' : l.batch_id # call'[p].id
                   /\ \A i \in 1..Len(RecentBatches') : RecentBatches'[i].id # call'[p].id
      ]_vars

AdapterErrorWitness ==
    \E p \in Procs :
        /\ pc[p] = "done" /\ call[p].op = "finalize_reports"
        /\ call[p].adapter = "error" /\ result[p].kind = "Internal"
        /\ Len(call[p].report_ids) = 2
        /\ call[p].report_ids[1] # call[p].report_ids[2]
        /\ \A i \in 1..2 : Row(call[p].report_ids[i]).status = "Draft"

\* C5: when the adapter answers with succeeded = false, the batch row, the
\* journal lines and the status updates of that finalize_reports call are absent.
FailedExportLeavesNothing ==
    \A p \in Procs :
        ( /\ pc[p] = "done" /\ call[p].op = "finalize_reports"
          /\ call[p].adapter = "failed" )
        => /\ \A b \in batches : b.id # call[p].id
           /\ \A l \in journal_lines : l.batch_id # call[p].id

\* C6: every change of a report's status follows an edge of the lifecycle
\* Draft -> Submitted -> ManagerApproved -> FinanceFinalized,
\* Submitted -> NeedsChanges, Submitted -> Denied.
StatusFollowsLifecycle ==
    [][\A r \in ReportIds :
          (reports[r].exists /\ reports'[r].status # reports[r].status) =>
             <<reports[r].status, reports'[r].status>> \in
                { <<"Draft", "Submitted">>, <<"Submitted", "ManagerApproved">>,
                  <<"ManagerApproved", "FinanceFinalized">>,
                  <<"Submitted", "NeedsChanges">>, <<"Submitted", "Denied">> }
      ]_vars

\* C7: once a report is FinanceFinalized its status never changes again.
FinanceFinalizedTerminal ==
    [][\A r \in ReportIds :
          reports[r].status = "FinanceFinalized" => reports'[r].status = "FinanceFinalized"
      ]_vars

\* C8: record_decision with Approved on an existing report commits, leaving the
\* report ManagerApproved for a Manager and FinanceFinalized for Finance, together
\* with exactly one new Approval row carrying the actor's id, role and decision.
ApprovedDecisionCommits ==
    [][\A p \in Procs :
          ( /\ call[p].op = "record_decision" /\ call[p].decision = "Approved"
            /\ pc'[p] # pc[p]
            /\ Row(call[p].report_id).exists ) =>
             LET rid == call[p].report_id
                 own == {a \in approvals' : a.id = call[p].id}
             IN /\ pc[p] = "decision_transition" => pc'[p] = "decision_commit"
                /\ pc[p] = "decision_commit" =>
                      /\ result'[p].kind = "Ok"
                      /\ reports'[rid].status =
                            (IF call[p].actor.role = "Manager"
                             THEN "ManagerApproved" ELSE "FinanceFinalized")
                      /\ Cardinality(approvals') = Cardinality(approvals) + 1
                      /\ approvals \subseteq approvals'
                      /\ own = approvals' \ approvals
                      /\ \A a \in own :
                            /\ a.report_id = rid
                            /\ a.approver_id = call[p].actor.employee_id
                            /\ a.role = call[p].actor.role
                            /\ a.status = "Approved"
      ]_vars

ApprovedDecisionWitness ==
    \E p, q \in Procs :
        /\ pc[p] = "done" /\ call[p].op = "record_decision" /\ result[p].kind = "Ok"
        /\ call[p].actor.role = "Finance" /\ call[p].decision = "Approved"
        /\ Row(call[p].report_id).status = "FinanceFinalized"
        /\ pc[q] = "done" /\ call[q].op = "record_decision" /\ result[q].kind = "Ok"
        /\ call[q].actor.role = "Manager" /\ call[q].decision = "Approved"
        /\ Row(call[q].report_id).status = "ManagerApproved"
        /\ Cardinality(approvals) = 2

\* C9: record_decision by an Employee or Admin actor returns Forbidden at once and
\* commits nothing: the approval rows and every report are as before the call.
OtherRolesForbidden ==
    [][\A p \in Procs :
          ( /\ call'[p].op = "record_decision"
            /\ call'[p].actor.role \notin {"Manager", "Finance"}
            /\ <<pc[p], call[p]>> # <<pc'[p], call'[p]>> ) =>
             /\ pc[p] = "idle" /\ pc'[p] = "done"
             /\ result'[p] = Err("Forbidden", "")
             /\ tx'[p] = NoTx
             /\ approvals' = approvals
             /\ reports' = reports
             /\ db' = db
      ]_vars

OtherRolesForbiddenWitness ==
    \E p, q \in Procs :
        /\ pc[p] = "done" /\ call[p].op = "record_decision"
        /\ call[p].actor.role = "Admin" /\ result[p].kind = "Forbidden"
        /\ pc[q] = "done" /\ call[q].op = "record_decision"
        /\ call[q].actor.role = "Employee" /\ result[q].kind = "Forbidden"

\* C10: when the transition of a record_decision call finds no report row, the
\* call returns NotFound and the Approval row it inserted is not committed.
NotFoundCommitsNoApproval ==
    [][\A p \in Procs :
          ( /\ pc[p] = "decision_transition" /\ pc'[p] # pc[p]
            /\ ~Row(call[p].report_id).exists ) =>
             /\ tx[p].approvals # {}
             /\ pc'[p] = "done"
             /\ result'[p].kind = "NotFound"
             /\ approvals' = approvals
             /\ \A a \in approvals' : a.id # call[p].id
             /\ tx'[p] = NoTx
             /\ db' = db
      ]_vars

NotFoundWitness ==
    \E p \in Procs :
        /\ pc[p] = "done" /\ call[p].op = "record_decision"
        /\ call[p].decision = "Approved" /\ call[p].report_id = MissingId
        /\ result[p].kind = "NotFound"
        /\ \A a \in approvals : a.id # call[p].id

\* C11: record_decision with Denied or NeedsChanges by a Manager or a Finance actor
\* on a stored report goes from the INSERT straight to the commit; the commit
\* returns Ok, adds exactly one Approval row (the actor's id and role, the
\* decision) and leaves every report, the decided one included, as it was.
RejectionOnlyRecorded ==
    [][\A p \in Procs :
          ( /\ call'[p].op = "record_decision"
            /\ call'[p].decision \in {"Denied", "NeedsChanges"}
            /\ call'[p].actor.role \in {"Manager", "Finance"}
            /\ Row(call'[p].report_id).exists
            /\ pc'[p] # pc[p] ) =>
             LET rid == call'[p].report_id
                 own == {a \in approvals' : a.id = call'[p].id}
             IN /\ reports' = reports
                /\ pc[p] = "idle" => pc'[p] = "decision_commit" /\ approvals' = approvals
                /\ pc[p] # "idle" =>
                      /\ pc[p] = "decision_commit" /\ pc'[p] = "done"
                      /\ result'[p].kind = "Ok"
                      /\ approvals \subseteq approvals'
                      /\ approvals' \ approvals = own
                      /\ Cardinality(own) = 1
                      /\ \A a \in own :
                            /\ a.report_id = rid
                            /\ a.approver_id = call[p].actor.employee_id
                            /\ a.role = call[p].actor.role
                            /\ a.status = call[p].decision
      ]_vars

RejectionWitness ==
    \E p, q \in Procs :
        /\ pc[p] = "done" /\ call[p].op = "record_decision" /\ result[p].kind = "Ok"
        /\ call[p].actor.role = "Manager" /\ call[p].decision = "Denied"
        /\ pc[q] = "done" /\ call[q].op = "record_decision" /\ result[q].kind = "Ok"
        /\ call[q].actor.role = "Finance" /\ call[q].decision = "NeedsChanges"
        /\ call[p].report_id = call[q].report_id
        /\ Row(call[p].report_id).status = "Draft"
        /\ Cardinality(approvals) = 2

\* C15: the commit of a finalize_reports call leaves every listed report that is
\* stored in FinanceFinalized, whatever its committed status was just before (one
\* already FinanceFinalized stays so), with its owner and version as they were.
FinalizeOverwritesAnyStatus ==
    [][\A p \in Procs :
          ( /\ call[p].op = "finalize_reports"
            /\ pc[p] = "finalize_loop" /\ pc'[p] = "done"
            /\ result'[p].kind = "Ok" ) =>
             \A i \in 1..Len(call[p].report_ids) :
                LET rid == call[p].report_ids[i]
                IN Row(rid).exists =>
                      reports'[rid] = [reports[rid] EXCEPT !.status = "FinanceFinalized"]
      ]_vars

FinalizeOverwritesWitness ==
    \E p, q \in Procs :
        /\ pc[p] = "done" /\ call[p].op = "record_decision" /\ result[p].kind = "Ok"
        /\ call[p].actor.role = "Finance" /\ call[p].decision = "Approved"
        /\ pc[q] = "done" /\ call[q].op = "finalize_reports" /\ result[q].kind = "Ok"
        /\ Len(call[q].report_ids) = 2
        /\ call[q].report_ids[1] = call[p].report_id
        /\ call[q].report_ids[2] # call[p].report_id
        /\ \A i \in 1..2 : Row(call[q].report_ids[i]).status = "FinanceFinalized"

\* C16: the commit of a finalize_reports call with n report ids adds exactly n
\* journal lines, all of its new batch, the i-th with line_number i and the i-th
\* report id; in every state the line numbers of a batch are 1..n without repeats.
JournalLinesNumbered ==
    [][ /\ \A p \in Procs :
            ( /\ call[p].op = "finalize_reports"
              /\ pc[p] = "finalize_loop" /\ pc'[p] = "done"
              /\ result'[p].kind = "Ok" ) =>
               LET ids == call[p].report_ids
                   new == journal_lines' \ journal_lines
               IN /\ journal_lines \subseteq journal_lines'
                  /\ Cardinality(new) = Len(ids)
                  /\ \A l \in new : l.batch_id = call[p].id
                  /\ \A b \in batches' \ batches : b.id = call[p].id
                  /\ \A i \in 1..Len(ids) :
                        \E l \in new : l.line_number = i /\ l.report_id = ids[i]
        /\ \A b \in batches' :
               LET lines == {l \in journal_lines' : l.batch_id = b.id}
               IN /\ {l.line_number : l \in lines} = 1..Cardinality(lines)
                  /\ \A l, m \in lines : l.line_number = m.line_number => l = m
        /\ \A l \in journal_lines' : \E b \in batches' : b.id = l.batch_id
      ]_vars

JournalLinesWitness ==
    \E p, q \in Procs :
        /\ p # q /\ pc[p] = "done" /\ pc[q] = "done"
        /\ call[p].op = "finalize_reports" /\ result[p].kind = "Ok"
        /\ call[q].op = "finalize_reports" /\ result[q].kind = "Ok"
        /\ Len(call[p].report_ids) = 2
        /\ call[p].report_ids[1] > call[p].report_ids[2]
        /\ call[q].report_ids = <<call[p].report_ids[1], call[p].report_ids[1]>>
        /\ Cardinality(journal_lines) = 4

\* C17: a finalize_reports call invokes the export adapter at most once: when all
\* its updates and journal lines are in its open transaction and nothing of it is
\* committed, and the call ends in that step (no retry). After a call that failed,
\* with no other call begun, the store is as if the call had never been made.
AdapterOnceNoRetry ==
    [][\A p \in Procs :
          /\ call[p].adapter # "none" =>
                /\ pc[p] = "done" /\ pc'[p] = "done"
                /\ call'[p].adapter = call[p].adapter
          /\ (call[p].adapter = "none" /\ call'[p].adapter # "none") =>
                LET ids == call[p].report_ids
                IN /\ call[p].op = "finalize_reports"
                   /\ pc[p] = "finalize_loop" /\ pc'[p] = "done"
                   /\ Cardinality(tx[p].lines) = Len(ids)
                   /\ \A i \in 1..Len(ids) :
                         Row(ids[i]).exists => ids[i] \in DOMAIN tx[p].writes
                   /\ \A b \in batches : b.id # call[p].id
                   /\ \A l \in journal_lines : l.batch_id # call[p].id
          /\ ( /\ call'[p].op = "finalize_reports" /\ pc'[p] = "done"
               /\ result'[p].kind # "Ok"
               /\ \A q \in Procs \ {p} : pc'[q] = "idle" ) =>
                /\ approvals' = {} /\ batches' = {} /\ journal_lines' = {}
                /\ \A r \in ReportIds :
                      reports'[r].exists =>
                         reports'[r].status = "Draft" /\ reports'[r].version = 1
      ]_vars

AdapterOnceWitness ==
    \E p, q \in Procs :
        /\ pc[p] = "done" /\ call[p].op = "finalize_reports"
        /\ call[p].adapter = "error" /\ result[p].kind = "Internal"
        /\ pc[q] = "done" /\ call[q].op = "finalize_reports"
        /\ call[q].report_ids = call[p].report_ids /\ Len(call[q].report_ids) = 2
        /\ call[q].adapter = "succeeded" /\ result[q] = Ok("exported")
        /\ Cardinality(batches) = 1 /\ Cardinality(journal_lines) = 2

\* C18: the first step of evaluate_report returns NotFound when no report has the
\* id, whoever asks, and Forbidden when the report is stored and the actor is
\* neither its owner nor a Manager, Finance or Admin user; otherwise the call
\* goes on and every later step of it ends in an evaluation or goes on.
EvaluateAccess ==
    [][\A p \in Procs :
          (call'[p].op = "evaluate_report" /\ pc'[p] # pc[p]) =>
             LET actor == call'[p].actor
                 row == Row(call'[p].report_id)
             IN IF pc[p] = "idle"
                THEN IF ~row.exists
                     THEN pc'[p] = "done" /\ result'[p] = Err("NotFound", "")
                     ELSE IF /\ actor.employee_id # row.employee_id
                             /\ actor.role \notin {"Manager", "Finance", "Admin"}
                     THEN pc'[p] = "done" /\ result'[p] = Err("Forbidden", "")
                     ELSE pc'[p] = "evaluate_items" /\ result'[p] = NoResult
                ELSE \/ pc'[p] = "evaluate_caps" /\ result'[p] = NoResult
                     \/ /\ pc'[p] = "done" /\ result'[p].kind = "Ok"
                        /\ Len(result'[p].value) = 1
      ]_vars

EvaluateAccessWitness ==
    \E p, q \in Procs :
        /\ pc[p] = "done" /\ call[p].op = "evaluate_report" /\ result[p].kind = "Ok"
        /\ call[p].actor.role = "Employee"
        /\ call[p].actor.employee_id = Row(call[p].report_id).employee_id
        /\ pc[q] = "done" /\ call[q].op = "evaluate_report"
        /\ call[q].report_id = call[p].report_id
        /\ call[q].actor.role = "Employee" /\ result[q].kind = "Forbidden"

\* C19: no step of an evaluate_report call changes a stored row, and two finished
\* calls with the same actor and report, with no commit since either of them
\* began, have returned the same result.
EvaluateIdempotent ==
    [][ /\ \A p \in Procs :
            (call'[p].op = "evaluate_report" /\ pc'[p] # pc[p]) => db' = db
        /\ \A p, q \in Procs :
            ( /\ pc'[p] = "done" /\ pc'[q] = "done"
              /\ call'[p].op = "evaluate_report" /\ call'[q].op = "evaluate_report"
              /\ call'[p].actor = call'[q].actor
              /\ call'[p].report_id = call'[q].report_id
              /\ call'[p].began = WriteCount' /\ call'[q].began = WriteCount' )
            => result'[p] = result'[q]
      ]_vars

EvaluateIdempotentWitness ==
    \E p, q \in Procs :
        /\ p # q /\ pc[p] = "done" /\ pc[q] = "done"
        /\ call[p].op = "evaluate_report" /\ call[q].op = "evaluate_report"
        /\ call[p].actor = call[q].actor /\ call[p].report_id = call[q].report_id
        /\ call[p].began = WriteCount /\ call[q].began = WriteCount
        /\ result[p].kind = "Ok" /\ result[p] = result[q]
        /\ ~result[p].value[1].is_valid

\* C20: the evaluation evaluate_report returns for a report is invalid iff
\* evaluate_item finds a violation for one of its items; its violations are the
\* items' violations in item order; it has one warning per item flagged as a
\* policy exception, naming the item, and a warning alone leaves it valid; a
\* report without items gets valid, no violations, no warnings.
AggregateMergesItems ==
    \A p \in Procs :
        (pc[p] = "done" /\ call[p].op = "evaluate_report") =>
           LET ev == result[p].value[1]
               mine == {i \in 1..Len(items) : items[i].report_id = call[p].report_id}
               per(i) == evaluate_item(items[i], policy_caps).violations
               flagged == {i \in mine : items[i].is_policy_exception}
               RECURSIVE Before(_)
               Before(i) == IF i = 1 THEN 0 ELSE Before(i - 1) + Len(per(i - 1))
           IN /\ result[p].kind = "Ok"
              /\ mine = 1..Len(items)
              /\ ev.is_valid = ~(\E i \in mine : per(i) # <<>>)
              /\ Len(ev.violations) = Before(Len(items) + 1)
              /\ \A i \in mine : \A k \in 1..Len(per(i)) :
                    ev.violations[Before(i) + k] = per(i)[k]
              /\ Len(ev.warnings) = Cardinality(flagged)
              /\ \A i \in flagged : \E w \in 1..Len(ev.warnings) :
                    ev.warnings[w] =
                       <<"Expense item marked as a policy exception", items[i].id>>
              /\ items = <<>> =>
                    ev = [is_valid |-> TRUE, violations |-> <<>>, warnings |-> <<>>]

AggregateWitness ==
    \E p \in Procs :
        /\ pc[p] = "done" /\ call[p].op = "evaluate_report" /\ result[p].kind = "Ok"
        /\ Len(items) = 2
        /\ ~items[1].is_policy_exception /\ items[2].is_policy_exception
        /\ evaluate_item(items[1], policy_caps).violations # <<>>
        /\ evaluate_item(items[2], policy_caps).violations = <<>>
        /\ ~result[p].value[1].is_valid
        /\ Len(result[p].value[1].violations) = 2
        /\ Len(result[p].value[1].warnings) = 1

\* C12: what a statement on the pool can read, the committed rows, never holds a
\* part of a call's writes. An Approved row appears in the step that gives the
\* report the status it stands for; a batch appears exported or failed, never
\* pending, in the step that adds all its journal lines and makes its stored
\* reports FinanceFinalized, and a journal line only with its batch; a report
\* appears in the step that adds its items, whose amounts sum to its total. The
\* readers see it so: evaluate_report reads all the items of a report it found,
\* and recent_batches lists only batches of finished calls, none pending.
WritesVisibleTogether ==
    [][ LET Amounts(rid) ==
                LET RECURSIVE Sum(_)
                    Sum(i) == IF i = 0 THEN 0
                              ELSE Sum(i - 1) + (IF items'[i].report_id = rid
                                                 THEN items'[i].amount_cents ELSE 0)
                IN Sum(Len(items'))
            Read(rows) ==
                LET RECURSIVE Sum(_)
                    Sum(i) == IF i = 0 THEN 0 ELSE Sum(i - 1) + rows[i].amount_cents
                IN Sum(Len(rows))
        IN
        /\ \A a \in approvals' \ approvals :
              a.status = "Approved" =>
                 /\ a.report_id \in ReportIds
                 /\ reports'[a.report_id].status =
                       (IF a.role = "Manager" THEN "ManagerApproved" ELSE "FinanceFinalized")
        /\ \A b \in batches' : b.status \in {"exported", "failed"}
        /\ \A b \in batches' \ batches :
              \E p \in Procs :
                 /\ call[p].op = "finalize_reports" /\ call[p].id = b.id
                 /\ pc'[p] = "done"
                 /\ \A i \in 1..Len(call[p].report_ids) :
                       /\ \E l \in journal_lines' \ journal_lines :
                             /\ l.batch_id = b.id /\ l.line_number = i
                             /\ l.report_id = call[p].report_ids[i]
                       /\ Row(call[p].report_ids[i]).exists =>
                             reports'[call[p].report_ids[i]].status = "FinanceFinalized"
        /\ \A l \in journal_lines' \ journal_lines :
              \E b \in batches' \ batches : b.id = l.batch_id
        /\ \A r \in ReportIds :
              /\ reports'[r].exists => Amounts(r) = reports'[r].total_amount_cents
              /\ ~reports'[r].exists => Amounts(r) = 0
              /\ (reports'[r].status = "FinanceFinalized"
                     /\ reports[r].status # "FinanceFinalized") =>
                    \/ \E l \in journal_lines' \ journal_lines : l.report_id = r
                    \/ \E a \in approvals' \ approvals :
                          a.report_id = r /\ a.role = "Finance" /\ a.status = "Approved"
        /\ \A p \in Procs :
              /\ (call'[p].op = "evaluate_report" /\ pc'[p] = "evaluate_caps") =>
                    Read(call'[p].rows) = reports'[call'[p].report_id].total_amount_cents
              /\ ( /\ call'[p].op = "evaluate_report" /\ pc[p] = "evaluate_items"
                   /\ pc'[p] = "done" ) =>
                    reports'[call'[p].report_id].total_amount_cents = 0
              /\ ( /\ call'[p].op = "recent_batches" /\ pc'[p] = "done"
                   /\ result'[p].kind = "Ok" ) =>
                    LET listed == result'[p].value[1]
                    IN \A i \in 1..Len(listed) :
                          /\ listed[i].status # "pending"
                          /\ \E q \in Procs :
                                /\ call'[q].id = listed[i].id /\ pc'[q] = "done"
                                /\ call'[q].op = "finalize_reports"
                                /\ listed[i].report_count =
                                      Cardinality({call'[q].report_ids[k] :
                                                      k \in 1..Len(call'[q].report_ids)})
      ]_vars

WritesVisibleWitness ==
    \E p, q \in Procs :
        /\ pc[p] = "create_items" /\ call[p].idx > Len(call[p].payload.items)
        /\ Len(tx[p].items) = 1 /\ ~Row(call[p].report_id).exists
        /\ pc[q] = "done" /\ call[q].op = "evaluate_report"
        /\ call[q].report_id = call[p].report_id /\ result[q].kind = "NotFound"
        /\ \A i \in 1..Len(items) : items[i].report_id # call[p].report_id

\* C14: finalize_reports and recent_batches called by an actor who is not
\* Finance return Forbidden in their first step, with no transaction opened, the
\* adapter not called and every stored row as it was.
FinanceOnly ==
    [][\A p \in Procs :
          ( /\ call'[p].op \in {"finalize_reports", "recent_batches"}
            /\ call'[p].actor.role # "Finance"
            /\ <<pc[p], call[p]>> # <<pc'[p], call'[p]>> ) =>
             /\ pc[p] = "idle" /\ pc'[p] = "done"
             /\ result'[p] = Err("Forbidden", "")
             /\ tx[p] = NoTx /\ tx'[p] = NoTx
             /\ call'[p].adapter = "none"
             /\ db' = db
      ]_vars

FinanceOnlyWitness ==
    \E p, q \in Procs :
        /\ pc[p] = "done" /\ call[p].op = "finalize_reports"
        /\ call[p].actor.role = "Manager" /\ result[p].kind = "Forbidden"
        /\ pc[q] = "done" /\ call[q].op = "recent_batches"
        /\ call[q].actor.role = "Admin" /\ result[q].kind = "Forbidden"
        /\ \E r \in ReportIds : reports[r].exists

\* C13: when the caller of finalize_reports disconnects while the call awaits the
\* export adapter (or any earlier statement), the open transaction is eventually
\* rolled back and closed for good, and neither the disconnect nor the rollback
\* commits anything: the batch row, the journal lines and the status updates of
\* the call all stay uncommitted.
CancelledResolves ==
    /\ \A p \in Procs :
          (pc[p] = "dropped") ~> [](pc[p] = "done" /\ tx[p] = NoTx)
    /\ [][\A p \in Procs :
            (pc'[p] = "dropped" \/ pc[p] = "dropped") =>
               /\ pc'[p] # pc[p] => db' = db
               /\ \A b \in batches' : b.id # call[p].id
               /\ \A l \in journal_lines' : l.batch_id # call[p].id]_vars

\* A call over two reports, dropped at the await of export_batch with both rows
\* updated, has been rolled back: the reports keep their status and no batch or
\* journal line is stored.
CancelledWitness ==
    \E p \in Procs :
        /\ call[p].op = "finalize_reports"
        /\ result[p].kind = "Cancelled"
        /\ Len(call[p].report_ids) = 2
        /\ call[p].idx > Len(call[p].report_ids)
        /\ \A i \in 1..2 : Row(call[p].report_ids[i]).status = "Draft"
        /\ call[p].report_ids[1] # call[p].report_ids[2]
        /\ tx[p] = NoTx
        /\ batches = {}
        /\ journal_lines = {}

\* C21: for a Meal item evaluate_item emits one violation per Meal cap that is
\* active on the item's date (active_from <= date, and date <= active_to when
\* there is one) and lower than the item's amount, in the order of the caps; the
\* item is valid iff there is no such cap, so an amount equal to the cap is valid
\* and without an active Meal cap the item is valid.
MealViolationPerExceededCap ==
    \A k \in 1..Len(items) :
        items[k].category = "Meal" =>
            LET item == items[k]
                e == evaluate_item(item, policy_caps)
                exceeded == {i \in 1..Len(policy_caps) :
                                /\ policy_caps[i].category = "Meal"
                                /\ policy_caps[i].active_from <= item.expense_date
                                /\ \/ policy_caps[i].active_to = <<>>
                                   \/ item.expense_date <= policy_caps[i].active_to[1]
                                /\ item.amount_cents > policy_caps[i].amount_cents}
            IN /\ e.is_valid <=> exceeded = {}
               /\ Len(e.violations) = Cardinality(exceeded)
               /\ \A n \in 1..Len(e.violations) :
                     \E i \in exceeded :
                        /\ Cardinality({j \in exceeded : j <= i}) = n
                        /\ e.violations[n] = MealMessage(policy_caps[i].amount_cents)

\* A Meal item of amount 3 on the last day (2) of two windows, over caps of 1 and
\* 2, has been evaluated: two violations, one per cap.
MealViolationWitness ==
    /\ pc[1] = "done" /\ result[1].kind = "Ok"
    /\ items[1].category = "Meal" /\ items[1].amount_cents = 3 /\ items[1].expense_date = 2
    /\ Len(policy_caps) = 2
    /\ \A i \in 1..2 : policy_caps[i].category = "Meal" /\ policy_caps[i].active_to = <<2>>
    /\ policy_caps[1].amount_cents = 1 /\ policy_caps[2].amount_cents = 2
    /\ ~result[1].value[1].is_valid
    /\ result[1].value[1].violations = <<MealMessage(1), MealMessage(2)>>

\* C22: for a Mileage item evaluate_item looks at the first cap of the sequence
\* that is a Mileage cap active on the item's date, and at no other: the item is
\* in violation (one message) iff its amount exceeds that cap, whatever the later
\* caps are, and valid when no Mileage cap is active.
MileageFirstActiveCap ==
    \A k \in 1..Len(items) :
        items[k].category = "Mileage" =>
            LET item == items[k]
                e == evaluate_item(item, policy_caps)
                active(i) ==
                    /\ policy_caps[i].category = "Mileage"
                    /\ policy_caps[i].active_from <= item.expense_date
                    /\ \/ policy_caps[i].active_to = <<>>
                       \/ item.expense_date <= policy_caps[i].active_to[1]
                first(i) == active(i) /\ \A j \in 1..(i - 1) : ~active(j)
                violated == \E i \in 1..Len(policy_caps) :
                               first(i) /\ item.amount_cents > policy_caps[i].amount_cents
            IN /\ e.is_valid <=> ~violated
               /\ e.violations =
                     IF violated THEN <<(<<"Mileage exceeds configured reimbursement rate">>)>>
                     ELSE <<>>

\* A Mileage item of amount 2 has been evaluated against an active cap of 2
\* followed by an active cap of 1: valid, the second cap is ignored.
MileageFirstCapWitness ==
    /\ pc[1] = "done" /\ result[1].kind = "Ok"
    /\ items[1].category = "Mileage" /\ items[1].amount_cents = 2 /\ items[1].expense_date = 2
    /\ Len(policy_caps) = 2
    /\ \A i \in 1..2 : /\ policy_caps[i].category = "Mileage"
                       /\ policy_caps[i].active_from = 1
                       /\ policy_caps[i].active_to = <<>>
    /\ policy_caps[1].amount_cents = 2 /\ policy_caps[2].amount_cents = 1
    /\ result[1].value[1] = ok

\* C23: caps bear on items of their own category only. An item that is neither a
\* Meal nor a Mileage item is valid whatever the caps are, and for every item the
\* caps of the other categories contribute nothing: the evaluation is the one
\* the caps of the item's own category alone give.
CapsOfOwnCategoryOnly ==
    \A k \in 1..Len(items) :
        LET item == items[k]
            e == evaluate_item(item, policy_caps)
            own == SelectSeq(policy_caps, LAMBDA cap : cap.category = item.category)
        IN /\ item.category \notin {"Meal", "Mileage"} =>
                 e.is_valid /\ e.violations = <<>>
           /\ e = evaluate_item(item, own)
           /\ own = <<>> => e.is_valid /\ e.violations = <<>>

\* A Lodging item of amount 3 has been evaluated with an active Lodging cap of 1
\* and an active Meal cap of 1 in the store: valid.
OtherCategoryWitness ==
    /\ pc[1] = "done" /\ result[1].kind = "Ok"
    /\ items[1].category = "Lodging" /\ items[1].amount_cents = 3 /\ items[1].expense_date = 2
    /\ Len(policy_caps) = 2
    /\ policy_caps[1].category = "Lodging" /\ policy_caps[2].category = "Meal"
    /\ \A i \in 1..2 : /\ policy_caps[i].amount_cents = 1
                       /\ policy_caps[i].active_from = 1
                       /\ policy_caps[i].active_to = <<>>
    /\ result[1].value[1].is_valid
    /\ result[1].value[1].violations = <<>>

InvalidPayloadRejected ==
    [][(pc[1] = "idle" /\ pc'[1] # "idle" /\ call'[1].op = "create_report") =>
          LET payload == call'[1].payload
              broken ==
                  \/ \A i \in 1..Len(payload.currency) : payload.currency[i] = " "
                  \/ payload.reporting_period_end < payload.reporting_period_start
                  \/ \E i \in 1..Len(payload.items) :
                        LET item == payload.items[i]
                        IN \/ item.amount_cents <= 0
                           \/ item.expense_date < payload.reporting_period_start
                           \/ item.expense_date > payload.reporting_period_end
                           \/ Len(item.receipts) > receipt_rules.max_files_per_item
                           \/ \E j \in 1..Len(item.receipts) :
                                 \/ item.receipts[j].size_bytes <= 0
                                 \/ item.receipts[j].size_bytes > receipt_rules.max_bytes
          IN broken =>
                /\ pc'[1] = "done"
                /\ result'[1].kind = "Validation"
                /\ result'[1].value[1] # {}
                /\ tx'[1] = NoTx
                /\ db' = db
                /\ \A r \in ReportIds : ~reports'[r].exists
                /\ items' = <<>> /\ receipts' = <<>>
      ]_vars

\* A request whose only fault is an item amount of 0 has been rejected, the
\* store is empty.
InvalidPayloadWitness ==
    /\ pc[1] = "done" /\ call[1].op = "create_report"
    /\ result[1].kind = "Validation"
    /\ result[1].value[1] = {<<(<<"items", 0, "amount_cents">>), "must be greater than 0">>}
    /\ call[1].payload.currency = USD
    /\ Len(call[1].payload.items) = 1
    /\ call[1].payload.items[1].amount_cents = 0
    /\ \A r \in ReportIds : ~reports[r].exists
    /\ items = <<>> /\ receipts = <<>>

\* C26: an authenticated create-report request with a valid reporting period, a
\* non-blank currency and no items is accepted: its handling ends Ok with a
\* Draft report whose totals are zero.
EmptyReportAccepted ==
    [][(pc[1] # "done" /\ pc'[1] = "done" /\ call'[1].op = "create_report") =>
          LET payload == call'[1].payload
          IN ( /\ payload.items = <<>>
               /\ payload.reporting_period_start <= payload.reporting_period_end
               /\ \E i \in 1..Len(payload.currency) : payload.currency[i] # " " ) =>
                 /\ result'[1].kind = "Ok"
                 /\ \E r \in ReportIds :
                       /\ reports'[r].exists
                       /\ reports'[r].status = "Draft"
                       /\ reports'[r].total_amount_cents = 0
                       /\ reports'[r].total_reimbursable_cents = 0
      ]_vars

\* C27: in every state each stored report's total_amount_cents is the sum of the
\* amount_cents of its items and its total_reimbursable_cents the sum over its
\* reimbursable items; so the reimbursable total never exceeds the total.
TotalsAreSums ==
    \A r \in ReportIds :
        reports[r].exists =>
            LET RECURSIVE Sum(_, _)
                Sum(k, only_reimbursable) ==
                    IF k = 0 THEN 0
                    ELSE (IF /\ items[k].report_id = r
                             /\ only_reimbursable => items[k].reimbursable
                          THEN items[k].amount_cents ELSE 0)
                         + Sum(k - 1, only_reimbursable)
            IN /\ reports[r].total_amount_cents = Sum(Len(items), FALSE)
               /\ reports[r].total_reimbursable_cents = Sum(Len(items), TRUE)
               /\ reports[r].total_reimbursable_cents <= reports[r].total_amount_cents

\* C28: a report comes into being in Draft with version 1, owned by the actor of
\* the creating call; it is never removed, its owner never changes and its
\* version never decreases; a submit_report that succeeds adds exactly 1 to the
\* version and one that fails leaves the report as it is.
VersionCountsSubmits ==
    [][\A r \in ReportIds :
          /\ reports[r].exists =>
                /\ reports'[r].exists
                /\ reports'[r].employee_id = reports[r].employee_id
                /\ reports'[r].version >= reports[r].version
          /\ (~reports[r].exists /\ reports'[r].exists) =>
                /\ reports'[r].status = "Draft"
                /\ reports'[r].version = 1
                /\ \/ \E p \in Procs :
                         /\ call[p].op = "create_report" /\ call[p].report_id = r
                         /\ pc[p] = "create_items" /\ result'[p].kind = "Ok"
                         /\ reports'[r].employee_id = call[p].actor.employee_id
                   \/ /\ \A p \in Procs : pc[p] = "idle"
                      /\ reports'[r].employee_id \in {u.employee_id : u \in Creators}
          /\ \A p \in Procs :
                ( /\ call'[p].op = "submit_report" /\ call'[p].report_id = r
                  /\ pc'[p] = "done" /\ pc[p] # "done" ) =>
                    IF result'[p].kind = "Ok"
                    THEN reports'[r].version = reports[r].version + 1
                    ELSE reports'[r] = reports[r]
      ]_vars

\* A Manager's request created a report and its submit by the owner succeeded:
\* version 2, owned by the Manager.
VersionWitness ==
    \E p, q \in Procs :
        /\ pc[p] = "done" /\ call[p].op = "create_report" /\ result[p].kind = "Ok"
        /\ call[p].actor.role = "Manager"
        /\ pc[q] = "done" /\ call[q].op = "submit_report" /\ result[q].kind = "Ok"
        /\ call[q].report_id = call[p].report_id
        /\ Row(call[p].report_id).employee_id = call[p].actor.employee_id
        /\ Row(call[p].report_id).version = 2

\* C29: approvals are append-only. No step modifies or removes a committed
\* Approval row, so the number of rows of a report never decreases; a report can
\* collect several.
ApprovalsAppendOnly ==
    [][/\ approvals \subseteq approvals'
       /\ \A r \in ReportIds \cup {MissingId} :
             Cardinality({a \in approvals' : a.report_id = r})
                 >= Cardinality({a \in approvals : a.report_id = r})
      ]_vars

\* One report holds the approval of a Manager and, committed after it, the
\* approval of Finance.
ApprovalsWitness ==
    \E p, q \in Procs :
        /\ p # q
        /\ pc[p] = "done" /\ call[p].op = "record_decision" /\ result[p].kind = "Ok"
        /\ call[p].actor.role = "Manager" /\ call[p].decision = "Approved"
        /\ pc[q] = "done" /\ call[q].op = "record_decision" /\ result[q].kind = "Ok"
        /\ call[q].actor.role = "Finance" /\ call[q].decision = "Approved"
        /\ call[p].report_id = call[q].report_id
        /\ Row(call[p].report_id).status = "FinanceFinalized"
        /\ {a.role : a \in {b \in approvals : b.report_id = call[p].report_id}}
               = {"Manager", "Finance"}

\* C30: a recent_batches call of a Finance actor changes no stored row and
\* returns the committed batches, the 25 newest when there are more, ordered by
\* finalized_at descending, each with report_count the number of distinct
\* reports among its journal lines and total_amount_cents the sum of their
\* amounts (0 and 0 when it has none).
RecentBatchesSummaries ==
    [][\A p \in Procs :
          ( /\ call'[p].op = "recent_batches" /\ call'[p].actor.role = "Finance"
            /\ <<pc[p], call[p]>> # <<pc'[p], call'[p]>> ) =>
             /\ db' = db
             /\ pc'[p] = "done" /\ result'[p].kind = "Ok"
             /\ LET listed == result'[p].value[1]
                    lines(b) == {l \in journal_lines : l.batch_id = b.id}
                IN /\ Len(listed) <= LIMIT
                   /\ Len(listed) = LIMIT \/ Len(listed) = Cardinality(batches)
                   /\ \A i \in 1..Len(listed) :
                         \E b \in batches :
                            /\ listed[i].id = b.id
                            /\ listed[i].finalized_at = b.finalized_at
                            /\ listed[i].status = b.status
                            /\ listed[i].report_count =
                                  Cardinality({l.report_id : l \in lines(b)})
                            /\ listed[i].total_amount_cents = SumAmounts(lines(b))
                            /\ \A c \in batches :
                                  c.finalized_at > b.finalized_at =>
                                     \E j \in 1..(i - 1) : listed[j].id = c.id
                   /\ \A i, j \in 1..Len(listed) :
                         i < j => /\ listed[i].finalized_at >= listed[j].finalized_at
                                  /\ listed[i].id # listed[j].id
      ]_vars

\* C31: the response to a call that returned a service error has the status of
\* the error's kind - 404 NotFound, 403 Forbidden, 422 Validation, 409 Conflict,
\* 500 Internal - and the body of the response to an Internal error holds no
\* part of the error's message.
ErrorsMapToStatus ==
    \A p \in Procs :
       (pc[p] = "done" /\ result[p].kind \in ServiceError) =>
          LET response == ErrorResponse(call[p].op, result[p])
          IN /\ response.status =
                   (CASE result[p].kind = "NotFound" -> 404
                      [] result[p].kind = "Forbidden" -> 403
                      [] result[p].kind = "Validation" -> 422
                      [] result[p].kind = "Conflict" -> 409
                      [] result[p].kind = "Internal" -> 500)
             /\ result[p].kind = "Internal" =>
                   \A i \in DOMAIN response.body.error, j \in DOMAIN result[p].msg :
                      response.body.error[i] # result[p].msg[j]

\* C32: fetch_queue changes no row. It returns Forbidden to every actor who is
\* not a Manager. For a Manager its first SELECT reads exactly the reports whose
\* committed status is Submitted, ordered by updated_at and then by id, and the
\* call returns one entry for each of them in that order, with all the items of
\* the report ordered by expense date and then id, and one policy flag for each
\* item that has is_policy_exception set. A report enters the queue in the step
\* that makes it Submitted and leaves it in the step that gives it another
\* status.
QueueListsSubmitted ==
    [][/\ \A p \in Procs :
          ( /\ call'[p].op = "fetch_queue"
            /\ <<pc[p], call[p]>> # <<pc'[p], call'[p]>> ) =>
             LET submitted == {r \in ReportIds : /\ reports[r].exists
                                                /\ reports[r].status = "Submitted"}
                 rows == call'[p].rows
             IN /\ db' = db
                /\ call'[p].actor.role # "Manager" =>
                      /\ pc[p] = "idle" /\ pc'[p] = "done"
                      /\ result'[p] = Err("Forbidden", "")
                /\ (call'[p].actor.role = "Manager" /\ pc[p] = "idle") =>
                      /\ {rows[i].id : i \in 1..Len(rows)} = submitted
                      /\ Len(rows) = Cardinality(submitted)
                      /\ \A i \in 1..Len(rows) :
                            rows[i].submitted_at = reports[rows[i].id].updated_at
                      /\ \A i, j \in 1..Len(rows) :
                            i < j =>
                               \/ rows[i].submitted_at < rows[j].submitted_at
                               \/ /\ rows[i].submitted_at = rows[j].submitted_at
                                  /\ rows[i].id < rows[j].id
                      /\ IF submitted = {}
                         THEN pc'[p] = "done" /\ result'[p] = OkValue(<<>>)
                         ELSE pc'[p] # "done"
                /\ (call'[p].actor.role = "Manager" /\ pc[p] # "idle") =>
                      /\ pc'[p] = "done" /\ result'[p].kind = "Ok"
                      /\ LET queue == result'[p].value[1]
                         IN /\ Len(queue) = Len(rows)
                            /\ \A i \in 1..Len(queue) :
                                  LET entry == queue[i]
                                      own == {k \in 1..Len(items) :
                                                 items[k].report_id = rows[i].id}
                                      flagged == {k \in 1..Len(entry.line_items) :
                                                     entry.line_items[k].is_policy_exception}
                                  IN /\ entry.report = rows[i]
                                     /\ Len(entry.line_items) = Cardinality(own)
                                     /\ {entry.line_items[k] :
                                            k \in 1..Len(entry.line_items)}
                                           = {items[k] : k \in own}
                                     /\ \A k, l \in 1..Len(entry.line_items) :
                                           k < l =>
                                              LET a == entry.line_items[k]
                                                  b == entry.line_items[l]
                                              IN \/ a.expense_date < b.expense_date
                                                 \/ /\ a.expense_date = b.expense_date
                                                    /\ a.id[2] < b.id[2]
                                     /\ Len(entry.policy_flags) = Cardinality(flagged)
                                     /\ \A k \in flagged :
                                           \E f \in 1..Len(entry.policy_flags) :
                                              /\ entry.policy_flags[f].item_id
                                                    = entry.line_items[k].id
                                              /\ entry.policy_flags[f].category
                                                    = entry.line_items[k].category
                                              /\ entry.policy_flags[f].expense_date
                                                    = entry.line_items[k].expense_date
       /\ \A r \in ReportIds :
             LET queued == {SelectQueueReports'[i].id :
                               i \in 1..Len(SelectQueueReports')}
             IN /\ (reports[r].status # "Submitted" /\ reports'[r].status = "Submitted")
                      => r \in queued
                /\ (reports[r].status = "Submitted" /\ reports'[r].status # "Submitted")
                      => r \notin queued
      ]_vars

\* A Manager's call has returned both reports, the second before the first
\* because it was submitted earlier, the first with its two items in the order
\* of their dates and with the flag of the one that is an exception.
QueueWitness ==
    \E p \in Procs :
        /\ pc[p] = "done" /\ call[p].op = "fetch_queue" /\ result[p].kind = "Ok"
        /\ call[p].actor.role = "Manager"
        /\ LET queue == result[p].value[1]
           IN /\ Len(queue) = 2
              /\ queue[1].report.id = 2 /\ queue[2].report.id = 1
              /\ Len(queue[2].line_items) = 2
              /\ queue[2].line_items[1].id = <<1, 2>>
              /\ queue[2].line_items[2].id = <<1, 1>>
              /\ Len(queue[2].policy_flags) = 1
              /\ queue[2].policy_flags[1].item_id = <<1, 1>>
        /\ \E q \in Procs :
              /\ pc[q] = "done" /\ call[q].op = "record_decision"
              /\ result[q].kind = "Ok" /\ call[q].report_id = 2
              /\ reports[2].status = "ManagerApproved"

\* C33: when the adapter call of finalize_reports fails, the call returns an
\* Internal error. After a successful rollback its message is the adapter's
\* error; after a failed rollback it is a compound message that names the
\* rollback's error and the adapter's error.
AdapterFailureSurfaces ==
    [][\A p \in Procs :
          ( /\ call'[p].op = "finalize_reports"
            /\ call[p].adapter = "none" /\ call'[p].adapter = "error" ) =>
             LET msg == result'[p].msg
             IN /\ pc'[p] = "done" /\ result'[p].kind = "Internal"
                /\ call'[p].rollback \in {"ok", "failed"}
                /\ call'[p].rollback = "ok" => msg = <<AdapterError>>
                /\ call'[p].rollback = "failed" =>
                      /\ \E i \in 1..Len(msg) : msg[i] = RollbackError
                      /\ \E i \in 1..Len(msg) : msg[i] = AdapterError
                      /\ msg # <<AdapterError>>
      ]_vars

\* One call has failed at the adapter and rolled back, another has failed at
\* the adapter and at the rollback.
AdapterFailureWitness ==
    \E p, q \in Procs :
        /\ pc[p] = "done" /\ call[p].op = "finalize_reports"
        /\ call[p].adapter = "error" /\ call[p].rollback = "ok"
        /\ result[p] = Err("Internal", <<AdapterError>>)
        /\ pc[q] = "done" /\ call[q].op = "finalize_reports"
        /\ call[q].adapter = "error" /\ call[q].rollback = "failed"
        /\ result[q].kind = "Internal" /\ Len(result[q].msg) = 5
        /\ Len(call[p].report_ids) = 2

\* C34: every committed batch has status exported or failed and has exported_at
\* set; it is exported exactly when the adapter answered succeeded = true, and
\* in both cases the call that committed it has returned the batch as Ok.
CommittedBatchStatus ==
    \A b \in batches :
        /\ b.status \in {"exported", "failed"}
        /\ b.exported
        /\ \E p \in Procs :
              /\ call[p].op = "finalize_reports" /\ call[p].id = b.id
              /\ pc[p] = "done"
              /\ call[p].adapter \in {"succeeded", "failed"}
              /\ b.status = "exported" <=> call[p].adapter = "succeeded"
              /\ result[p] = Ok(b.status)

\* Two calls have committed a batch each, one exported and one failed.
CommittedBatchWitness ==
    \E b, c \in batches :
        /\ b.status = "exported" /\ c.status = "failed"
        /\ \E l \in journal_lines : l.batch_id = c.id
        /\ \E p \in Procs : call[p].id = c.id /\ result[p].kind = "Ok"

\* C35: the status of every stored report is Draft, Submitted, ManagerApproved
\* or FinanceFinalized, never NeedsChanges or Denied, and no step takes a report
\* that has left Draft back to Draft.
StatusNeverRejected ==
    /\ [](\A r \in ReportIds :
            reports[r].exists =>
               reports[r].status \in
                  {"Draft", "Submitted", "ManagerApproved", "FinanceFinalized"})
    /\ [][\A r \in ReportIds :
            (reports[r].exists /\ reports[r].status # "Draft") =>
               reports'[r].status # "Draft"
         ]_vars

\* A report was submitted and then denied by a Manager: the decision is
\* committed and the report is still Submitted.
StatusNeverRejectedWitness ==
    \E p, q \in Procs :
        /\ pc[p] = "done" /\ call[p].op = "submit_report" /\ result[p].kind = "Ok"
        /\ pc[q] = "done" /\ call[q].op = "record_decision" /\ result[q].kind = "Ok"
        /\ call[q].decision = "Denied" /\ call[q].report_id = call[p].report_id
        /\ \E a \in approvals : a.report_id = call[p].report_id /\ a.status = "Denied"
        /\ Row(call[p].report_id).status = "Submitted"

\* C36: every step that changes the status of a stored report is a step of one
\* call. A step that makes a report ManagerApproved or FinanceFinalized belongs
\* to a Manager's or a Finance actor's call; the call of an Employee (and of an
\* Admin as well) changes only a report that actor owns, from Draft to
\* Submitted. So calls of Employees and Admins alone never take a report beyond
\* Submitted.
OnlyReviewersAdvance ==
    [][\A r \in ReportIds :
          (reports[r].exists /\ reports'[r].status # reports[r].status) =>
             \E p \in Procs :
                LET actor == call'[p].actor
                IN /\ pc'[p] # pc[p]
                   /\ \A q \in Procs \ {p} : pc'[q] = pc[q]
                   /\ reports'[r].status \in {"ManagerApproved", "FinanceFinalized"} =>
                         actor.role \in {"Manager", "Finance"}
                   /\ actor.role \in {"Employee", "Admin"} =>
                         /\ reports[r].employee_id = actor.employee_id
                         /\ reports[r].status = "Draft"
                         /\ reports'[r].status = "Submitted"
      ]_vars

\* The owner has submitted the report and an Admin's attempt to finalize was
\* refused: the report is Submitted.
OnlyReviewersWitness ==
    \E p, q \in Procs :
        /\ pc[p] = "done" /\ call[p].op = "submit_report" /\ result[p].kind = "Ok"
        /\ call[p].actor.role = "Employee"
        /\ Row(call[p].report_id).employee_id = call[p].actor.employee_id
        /\ Row(call[p].report_id).status = "Submitted"
        /\ pc[q] = "done" /\ call[q].op = "finalize_reports"
        /\ call[q].actor.role = "Admin" /\ result[q].kind = "Forbidden"

\* C37: in every state a stored report that is ManagerApproved has a committed
\* Approved approval of a Manager, and one that is FinanceFinalized has a
\* committed Approved approval of a Finance actor or a journal line in a
\* committed batch.
StatusHasAuditTrail ==
    \A r \in ReportIds :
        reports[r].exists =>
           /\ reports[r].status = "ManagerApproved" =>
                 \E a \in approvals :
                    a.report_id = r /\ a.role = "Manager" /\ a.status = "Approved"
           /\ reports[r].status = "FinanceFinalized" =>
                 \/ \E a \in approvals :
                       a.report_id = r /\ a.role = "Finance" /\ a.status = "Approved"
                 \/ \E l \in journal_lines :
                       l.report_id = r /\ \E b \in batches : b.id = l.batch_id

\* One report is ManagerApproved by a Manager's decision; another is
\* FinanceFinalized by a finalization alone, with a journal line and no
\* approval.
AuditTrailWitness ==
    \E r, t \in ReportIds :
        /\ reports[r].status = "ManagerApproved"
        /\ reports[t].status = "FinanceFinalized"
        /\ \A a \in approvals : a.report_id # t
        /\ \E l \in journal_lines : l.report_id = t

\* C38: no step of a record_decision or finalize_reports call changes anything
\* of a report but its status and, for record_decision, its updated_at: owner,
\* period, currency, totals and version stay, a report the call does not name
\* stays as it is, and so do the items and the receipts.
DecisionsChangeStatusOnly ==
    [][\A p \in Procs :
          ( /\ call'[p].op \in {"record_decision", "finalize_reports"}
            /\ <<pc[p], call[p]>> # <<pc'[p], call'[p]>> ) =>
             /\ items' = items /\ receipts' = receipts
             /\ \A r \in ReportIds :
                   LET named ==
                          IF call'[p].op = "record_decision" THEN r = call'[p].report_id
                          ELSE \E i \in 1..Len(call'[p].report_ids) :
                                  call'[p].report_ids[i] = r
                   IN /\ ~named => reports'[r] = reports[r]
                      /\ call'[p].op = "finalize_reports" =>
                            reports'[r] = [reports[r] EXCEPT !.status = reports'[r].status]
                      /\ call'[p].op = "record_decision" =>
                            reports'[r] =
                               [reports[r] EXCEPT !.status = reports'[r].status,
                                                  !.updated_at = reports'[r].updated_at]
      ]_vars

\* A Manager's approval has moved one report and stamped its updated_at, a
\* finalization has moved another and left its updated_at; both reports have
\* the version and the totals of their creation.
DecisionsChangeWitness ==
    \E p, q \in Procs :
        /\ pc[p] = "done" /\ call[p].op = "record_decision" /\ result[p].kind = "Ok"
        /\ pc[q] = "done" /\ call[q].op = "finalize_reports" /\ result[q].kind = "Ok"
        /\ call[q].report_ids = <<2>> /\ call[p].report_id = 1
        /\ reports[1].status = "ManagerApproved" /\ reports[1].updated_at > 2
        /\ reports[2].status = "FinanceFinalized" /\ reports[2].updated_at = 2
        /\ \A r \in 1..2 : reports[r].version = 1 /\ reports[r].total_amount_cents = 2

\* C40: finalize_reports does not exclude reports that were already exported.
\* The commit of a finalize_reports call adds one batch and keeps the others,
\* and for every report id, whether or not it has journal lines already, adds
\* as many journal lines as the id occurs in report_ids.
FinalizeDoesNotExclude ==
    [][ \A p \in Procs :
            ( /\ call[p].op = "finalize_reports"
              /\ pc[p] = "finalize_loop" /\ pc'[p] = "done"
              /\ result'[p].kind = "Ok" ) =>
               LET ids == call[p].report_ids
                   Occurrences(r) == Cardinality({i \in 1..Len(ids) : ids[i] = r})
                   LinesOf(ls, r) == Cardinality({l \in ls : l.report_id = r})
               IN /\ batches \subseteq batches'
                  /\ Cardinality(batches' \ batches) = 1
                  /\ \A r \in ReportIds \cup {MissingId} :
                        LinesOf(journal_lines', r)
                            = LinesOf(journal_lines, r) + Occurrences(r)
      ]_vars

\* Two finalize_reports calls that both began before either committed have both
\* committed; one names a stored report once and the other names it twice, and
\* the report has three journal lines in two batches.
FinalizeTwiceWitness ==
    \E r \in ReportIds :
        /\ reports[r].exists
        /\ \A p \in Procs :
               /\ pc[p] = "done" /\ call[p].op = "finalize_reports"
               /\ result[p].kind = "Ok"
        /\ call[1].began = call[2].began
        /\ call[1].report_ids = <<r>>
        /\ call[2].report_ids = <<r, r>>
        /\ Cardinality({l \in journal_lines : l.report_id = r}) = 3
        /\ Cardinality({l.batch_id : l \in journal_lines}) = 2
        /\ Cardinality(batches) = 2

====
